---- MODULE Spec2Model ----
(***************************************************************************)
(* A model of the per-connection inbound stream engine of confidante       *)
(* (confidante-inbound/src/lib.rs) together with the parts of the XML      *)
(* element model, the namespace-aware stream writer, the XMPP stream       *)
(* wrapper and the feature negotiators (STARTTLS, SASL, resource binding)  *)
(* that the engine drives.                                                 *)
(*                                                                         *)
(* The engine is a single task.  Its suspension points are the reads of    *)
(* the next parser frame; `pc` names the read the task is suspended at,    *)
(* and every action runs the code from one read up to the next one.        *)
(***************************************************************************)
EXTENDS Naturals, Sequences, FiniteSets, TLC

VARIABLES
    pc,               \* where the task is suspended, or how it ended
    debug_build,      \* build profile: debug_assert! is compiled in
    sock_ok,          \* the socket still accepts writes
    starttls_allowed, \* XmppStream.starttls_allowed
    secure,           \* XmppStream.secure
    authenticated,    \* XmppStream.authenticated
    has_rw,           \* XmppStream.reader / writer are Some
    wstack,           \* StreamWriter.namespaces
    tls_required,     \* InboundStreamSettings.tls_required
    settings_ct,      \* InboundStreamSettings.connection_type
    connection_type,  \* StreamInfo.connection_type
    features,         \* StreamInfo.features
    jid,              \* StreamInfo.jid
    peer_jid,         \* StreamInfo.peer_jid
    peer_language,    \* StreamInfo.peer_language
    element,          \* the element process_element is working on
    pending,          \* features process_element has not tried yet
    sasl,             \* the mechanism negotiator of a running SASL exchange
    log,              \* what the engine did, in order
    reads,            \* number of frames taken from the parser
    stanzas,          \* number of stanzas taken from the mailbox
    ret,              \* result of the last direct call of a pure function
    parser,           \* XmppStream.reader: the StreamParser and what it holds
    socket,           \* what the peer has sent and the server has not read
    store,            \* the Store actor: its task and its two channels
    callers,          \* the tasks that hold a StoreHandle
    router,           \* the Router actor: its two channels and its entities
    mailboxes,        \* the stanza channels the connections registered
    recorder,         \* a StreamRecorder, its inner stream and its recording
    conns             \* the connections beside the router: what each registered

vars == <<pc, debug_build, sock_ok, starttls_allowed, secure, authenticated,
          has_rw, wstack, tls_required, settings_ct, connection_type,
          features, jid, peer_jid, peer_language, element, pending, sasl,
          log, reads, stanzas, ret, parser, socket,
          store, callers, router, mailboxes, recorder, conns>>

\* the state outside the engine's own fields
Apart ==
    <<parser, socket, store, callers, router, mailboxes, recorder, conns>>

\* the same without the store and without the router
BesideStore == <<parser, socket, router, mailboxes, recorder, conns>>

BesideRouter == <<parser, socket, store, callers, recorder, conns>>

EngineVars ==
    <<pc, debug_build, sock_ok, starttls_allowed, secure, authenticated,
      has_rw, wstack, tls_required, settings_ct, connection_type, features,
      jid, peer_jid, peer_language, element, pending, sasl, log, reads,
      stanzas>>

(***************************************************************************)
(* Bounds of the model.                                                    *)
(***************************************************************************)
MaxReads == 5
MaxStanzas == 2
MaxCalls == 4
MaxTokens == 3
MaxRequests == 3
MaxChunk == 3

MaxCommands == 3

None == "none"

\* no call has returned
NoRet == [op |-> None, arg |-> None, val |-> <<>>]

(***************************************************************************)
(* xml/namespaces.rs                                                       *)
(***************************************************************************)
XML == "http://www.w3.org/XML/1998/namespace"
XMLNS == "http://www.w3.org/2000/xmlns/"
XMPP_STREAMS == "http://etherx.jabber.org/streams"
XMPP_CLIENT == "jabber:client"
XMPP_SERVER == "jabber:server"
XMPP_SASL == "urn:ietf:params:xml:ns:xmpp-sasl"
XMPP_STREAM_ERRORS == "urn:ietf:params:xml:ns:xmpp-streams"
XMPP_BIND == "urn:ietf:params:xml:ns:xmpp-bind"
XMPP_STARTTLS == "urn:ietf:params:xml:ns:xmpp-tls"

(***************************************************************************)
(* xml.rs: the element model.  A node is a record; a Text node carries the *)
(* reserved name "#text".  Attributes are kept in insertion order as       *)
(* <<name, namespace, value>>.  The source keeps them in a HashMap, whose  *)
(* iteration order is unspecified: the order of the attributes inside one  *)
(* written tag is therefore one representative of the orders a run can     *)
(* produce, and no property below depends on it.                           *)
(***************************************************************************)
Element(name, ns) ==
    [name |-> name, ns |-> ns, attrs |-> <<>>, children |-> <<>>, text |-> ""]

TextNode(s) ==
    [name |-> "#text", ns |-> None, attrs |-> <<>>, children |-> <<>>, text |-> s]

NoElement ==
    [name |-> "#none", ns |-> None, attrs |-> <<>>, children |-> <<>>, text |-> ""]

validate(el, name, ns) == el.name = name /\ el.ns = ns

attribute(el, name, ns) ==
    LET hit == {i \in 1..Len(el.attrs) :
                    el.attrs[i][1] = name /\ el.attrs[i][2] = ns}
    IN  IF hit = {} THEN None ELSE el.attrs[CHOOSE i \in hit : TRUE][3]

set_attribute(el, name, ns, value) ==
    LET hit == {i \in 1..Len(el.attrs) :
                    el.attrs[i][1] = name /\ el.attrs[i][2] = ns}
    IN  IF hit = {}
        THEN [el EXCEPT !.attrs = Append(@, <<name, ns, value>>)]
        ELSE [el EXCEPT !.attrs[CHOOSE i \in hit : TRUE] = <<name, ns, value>>]

find_child(el, name, ns) ==
    LET hit == {i \in 1..Len(el.children) :
                    el.children[i].name = name /\ el.children[i].ns = ns}
    IN  IF hit = {} THEN NoElement
        ELSE el.children[CHOOSE i \in hit : \A j \in hit : i <= j]

RECURSIVE text(_)
RECURSIVE text_of_nodes(_)
text_of_nodes(nodes) ==
    IF nodes = <<>> THEN ""
    ELSE (IF Head(nodes).name = "#text" THEN Head(nodes).text
          ELSE text(Head(nodes))) \o text_of_nodes(Tail(nodes))
text(el) == text_of_nodes(el.children)

add_child(el, child) == [el EXCEPT !.children = Append(@, child)]

add_text(el, s) == add_child(el, TextNode(s))

(***************************************************************************)
(* xml/stream_writer.rs: the namespace-aware writer.  The stack is a       *)
(* sequence of frames, a frame a set of <<namespace, prefix>>.  A build    *)
(* operator returns the text it produced, the stack it leaves and whether  *)
(* a debug_assert!(false) was passed on the way.                           *)
(***************************************************************************)
NoPrefix == "#unbound"

NewWriter == << {<<XML, "xml">>, <<XMLNS, "xmlns">>} >>

Pop(stack) == IF stack = <<>> THEN <<>> ELSE SubSeq(stack, 1, Len(stack) - 1)

RECURSIVE lookup_namespace_prefix(_, _)
lookup_namespace_prefix(stack, ns) ==
    IF stack = <<>> THEN NoPrefix
    ELSE LET top == stack[Len(stack)]
         IN  IF \E b \in top : b[1] = ns
             THEN (CHOOSE b \in top : b[1] = ns)[2]
             ELSE lookup_namespace_prefix(Pop(stack), ns)

\* the namespace declarations among an element's attributes
Declarations(el) ==
    {<<el.attrs[i][3], el.attrs[i][1]>> :
        i \in {k \in 1..Len(el.attrs) : el.attrs[k][2] = XMLNS}}
    \cup
    {<<el.attrs[i][3], "">> :
        i \in {k \in 1..Len(el.attrs) :
                   el.attrs[k][2] = None /\ el.attrs[k][1] = "xmlns"}}

Built(xml, stack, assert) == [xml |-> xml, stack |-> stack, assert |-> assert]

\* b built after a: the texts in order, the stack b left
Joined(a, b) == Built(a.xml \o b.xml, b.stack, a.assert \/ b.assert)

\* one attribute under its prefix p, before the text of the later ones
attr_text(a, p, rest) ==
    IF a[2] # None /\ (p = "" \/ p = NoPrefix)
    THEN [xml |-> rest.xml, assert |-> TRUE]
    ELSE [xml |-> " " \o (IF a[2] = None THEN "" ELSE p \o ":")
                      \o a[1] \o "=\"" \o a[3] \o "\"" \o rest.xml,
          assert |-> rest.assert]

RECURSIVE attrs_text(_, _)
attrs_text(stack, as) ==
    IF as = <<>> THEN [xml |-> "", assert |-> FALSE]
    ELSE attr_text(Head(as), lookup_namespace_prefix(stack, Head(as)[2]),
                   attrs_text(stack, Tail(as)))

build_attributes(stack, el) == attrs_text(stack, el.attrs)

\* the tag of el under its prefix p, as being the text of its attributes
opening_tag(el, p, as, self_closing, pushed) ==
    Built((IF p = NoPrefix THEN ""
           ELSE "<" \o (IF el.ns = None \/ p = "" THEN "" ELSE p \o ":")
                    \o el.name \o as.xml)
          \o (IF self_closing THEN "/>" ELSE ">"),
          IF self_closing THEN Pop(pushed) ELSE pushed,
          p = NoPrefix \/ as.assert)

opening_tag_pushed(pushed, el, self_closing) ==
    opening_tag(el,
                IF el.ns = None THEN "" ELSE lookup_namespace_prefix(pushed, el.ns),
                build_attributes(pushed, el), self_closing, pushed)

build_opening_tag(stack, el, self_closing) ==
    opening_tag_pushed(Append(stack, Declarations(el)), el, self_closing)

closing_tag_keeping_frame(el, p, stack) ==
    Built(IF p = NoPrefix THEN ""
          ELSE "</" \o (IF el.ns = None \/ p = "" THEN "" ELSE p \o ":")
                    \o el.name \o ">",
          stack, p = NoPrefix)

closing_tag(el, p, stack) ==
    Built(IF p = NoPrefix THEN ""
          ELSE "</" \o (IF el.ns = None \/ p = "" THEN "" ELSE p \o ":")
                    \o el.name \o ">",
          Pop(stack), p = NoPrefix)

build_closing_tag(stack, el) ==
    closing_tag(el,
                IF el.ns = None THEN "" ELSE lookup_namespace_prefix(stack, el.ns),
                stack)

RECURSIVE build_xml_element(_, _)
RECURSIVE build_children(_, _)
RECURSIVE build_rest(_, _)
RECURSIVE build_inside(_, _)

\* the children after the first, built on the stack the first one left
build_rest(first, nodes) == Joined(first, build_children(first.stack, nodes))

build_children(stack, nodes) ==
    IF nodes = <<>> THEN Built("", stack, FALSE)
    ELSE build_rest(IF Head(nodes).name = "#text"
                    THEN Built(Head(nodes).text, stack, FALSE)
                    ELSE build_xml_element(stack, Head(nodes)),
                    Tail(nodes))

closed(el, kids) == Joined(kids, build_closing_tag(kids.stack, el))

\* what follows the opening tag
build_inside(open, el) ==
    IF el.children = <<>> THEN open
    ELSE closed(el, Joined(open, build_children(open.stack, el.children)))

build_xml_element(stack, el) ==
    build_inside(build_opening_tag(stack, el, el.children = <<>>), el)

\* the <stream:stream> root element write_stream_header builds
StreamElement(from) ==
    [name |-> "stream", ns |-> XMPP_STREAMS,
     attrs |-> << <<"from", None, from>>, <<"id", None, "ID">>,
                  <<"version", None, "1.0">>, <<"lang", XML, "en">>,
                  <<"xmlns", None, XMPP_CLIENT>>,
                  <<"stream", XMLNS, XMPP_STREAMS>> >>,
     children |-> <<>>, text |-> ""]

(***************************************************************************)
(* xml/stream_parser/rusty_xml.rs: the namespace-aware parser.  A fragment *)
(* is read character by character from the text the peer of the writer     *)
(* receives.  The scope is a stack of frames as the writer's: a frame is a *)
(* set of <<namespace, prefix>>, the default namespace under prefix "".    *)
(* A namespace declaration is kept among the attributes in the form the    *)
(* writer takes it in.                                                     *)
(***************************************************************************)
Entities ==
    {<<"&lt;", "<">>, <<"&gt;", ">">>, <<"&amp;", "&">>,
     <<"&quot;", "\"">>, <<"&apos;", "'">>}

\* the characters of s from a to b, as far as s has them
Slice(s, a, b) == SubSeq(s, a, IF b > Len(s) THEN Len(s) ELSE b)

Ch(s, i) == Slice(s, i, i)

\* the first position from i on that holds one of stops, Len(s) + 1 if none
RECURSIVE until(_, _, _)
until(s, i, stops) ==
    IF i > Len(s) \/ Slice(s, i, i) \in stops THEN i
    ELSE until(s, i + 1, stops)

\* every & of raw starts one of the predefined entities
RECURSIVE references_valid(_)
references_valid(raw) ==
    IF raw = "" THEN TRUE
    ELSE IF Head(raw) # "&" THEN references_valid(Tail(raw))
    ELSE /\ \E e \in Entities : e[1] = Slice(raw, 1, until(raw, 1, {";"}))
         /\ references_valid(Slice(raw, until(raw, 1, {";"}) + 1, Len(raw)))

RECURSIVE unescape(_)
unescape(raw) ==
    IF raw = "" THEN ""
    ELSE IF Head(raw) # "&" THEN Head(raw) \o unescape(Tail(raw))
    ELSE (CHOOSE e \in Entities :
              e[1] = Slice(raw, 1, until(raw, 1, {";"})))[2]
         \o unescape(Slice(raw, until(raw, 1, {";"}) + 1, Len(raw)))

\* the prefix and the local part of a qualified name
prefix_of(qname) ==
    IF until(qname, 1, {":"}) > Len(qname) THEN ""
    ELSE Slice(qname, 1, until(qname, 1, {":"}) - 1)

local_of(qname) ==
    IF until(qname, 1, {":"}) > Len(qname) THEN qname
    ELSE Slice(qname, until(qname, 1, {":"}) + 1, Len(qname))

RECURSIVE namespace_for_prefix(_, _)
namespace_for_prefix(scope, prefix) ==
    IF scope = <<>> THEN None
    ELSE IF \E b \in scope[Len(scope)] : b[2] = prefix
    THEN (CHOOSE b \in scope[Len(scope)] : b[2] = prefix)[1]
    ELSE namespace_for_prefix(Pop(scope), prefix)

Scanned(ok, attrs, next) == [ok |-> ok, attrs |-> attrs, next |-> next]

RECURSIVE scan_attributes(_, _, _)

\* the value between the quotes at from and q
scan_value(s, qname, from, q, acc) ==
    IF Ch(s, q) # "\"" \/ ~references_valid(Slice(s, from, q - 1))
    THEN Scanned(FALSE, acc, q)
    ELSE scan_attributes(s, q + 1,
                         Append(acc, <<qname, unescape(Slice(s, from, q - 1))>>))

\* the attribute whose name ends before eq
scan_attribute(s, i, eq, acc) ==
    IF eq = i \/ Ch(s, eq) # "=" \/ Ch(s, eq + 1) # "\""
    THEN Scanned(FALSE, acc, eq)
    ELSE scan_value(s, Slice(s, i, eq - 1), eq + 2,
                    until(s, eq + 2, {"\"", "<"}), acc)

\* the attributes of a tag as <<qualified name, value>>, up to its / or >
scan_attributes(s, i, acc) ==
    IF Ch(s, i) = " "
    THEN scan_attribute(s, i + 1, until(s, i + 1, {"=", " ", "/", ">", "<"}), acc)
    ELSE Scanned(Ch(s, i) \in {"/", ">"}, acc, i)

\* the namespaces a tag declares
declared(raw) ==
    {<<raw[k][2], local_of(raw[k][1])>> :
        k \in {j \in 1..Len(raw) : prefix_of(raw[j][1]) = "xmlns"}}
    \cup {<<raw[k][2], "">> : k \in {j \in 1..Len(raw) : raw[j][1] = "xmlns"}}

\* an attribute without prefix is in no namespace
resolved_attributes(raw, scope) ==
    [k \in 1..Len(raw) |->
        <<local_of(raw[k][1]),
          IF prefix_of(raw[k][1]) = "" THEN None
          ELSE namespace_for_prefix(scope, prefix_of(raw[k][1])),
          raw[k][2]>>]

Parsed(ok, el, next) == [ok |-> ok, el |-> el, next |-> next]

Nodes(ok, children, next) == [ok |-> ok, children |-> children, next |-> next]

RECURSIVE parse_element(_, _, _)
RECURSIVE parse_content(_, _, _, _)

\* the end tag of el, expected where its content stopped
end_tag(s, qname, el, content) ==
    IF ~content.ok
       \/ Slice(s, content.next, content.next + Len(qname) + 2)
              # "</" \o qname \o ">"
    THEN Parsed(FALSE, NoElement, content.next)
    ELSE Parsed(TRUE, [el EXCEPT !.children = content.children],
                content.next + Len(qname) + 3)

\* what follows the attributes: /> or > content and the end tag
after_tag(s, qname, next, inner, el) ==
    IF Ch(s, next) = "/"
    THEN Parsed(Ch(s, next + 1) = ">", el, next + 2)
    ELSE end_tag(s, qname, el, parse_content(s, next + 1, inner, <<>>))

\* the start tag named qname with the attributes as, read inside scope inner
start_tag(s, qname, as, inner) ==
    after_tag(s, qname, as.next, inner,
              [name |-> local_of(qname),
               ns |-> namespace_for_prefix(inner, prefix_of(qname)),
               attrs |-> resolved_attributes(as.attrs, inner),
               children |-> <<>>, text |-> ""])

scanned_tag(s, qname, as, scope) ==
    IF qname = "" \/ ~as.ok THEN Parsed(FALSE, NoElement, as.next)
    ELSE start_tag(s, qname, as, Append(scope, declared(as.attrs)))

named_tag(s, i, name_end, scope) ==
    scanned_tag(s, Slice(s, i + 1, name_end - 1),
                scan_attributes(s, name_end, <<>>), scope)

\* the element whose start tag opens at i
parse_element(s, i, scope) ==
    IF Ch(s, i) # "<" THEN Parsed(FALSE, NoElement, i)
    ELSE named_tag(s, i, until(s, i + 1, {" ", "/", ">", "<", "=", "\""}), scope)

after_child(s, scope, acc, child) ==
    IF ~child.ok THEN Nodes(FALSE, acc, child.next)
    ELSE parse_content(s, child.next, scope, Append(acc, child.el))

text_run(s, i, end, scope, acc) ==
    IF ~references_valid(Slice(s, i, end - 1)) THEN Nodes(FALSE, acc, i)
    ELSE parse_content(s, end, scope,
                       Append(acc, TextNode(unescape(Slice(s, i, end - 1)))))

\* the nodes from i up to the end tag of the element they are in
parse_content(s, i, scope, acc) ==
    IF i > Len(s) THEN Nodes(FALSE, acc, i)
    ELSE IF Ch(s, i) # "<" THEN text_run(s, i, until(s, i, {"<"}), scope, acc)
    ELSE IF Ch(s, i + 1) = "/" THEN Nodes(TRUE, acc, i)
    ELSE after_child(s, scope, acc, parse_element(s, i, scope))

\* the scope inside the stream the header of from has opened
OpenStream(from) == build_opening_tag(NewWriter, StreamElement(from), FALSE).stack

whole(s, p) ==
    IF p.ok /\ p.next = Len(s) + 1 THEN [ok |-> TRUE, el |-> p.el]
    ELSE [ok |-> FALSE, el |-> NoElement]

\* the Frame::XmlFragment read from the text s of one top-level element
parse_fragment(s, scope) == whole(s, parse_element(s, 1, scope))

(***************************************************************************)
(* The engine's state as a record, so that the code of a handler can be    *)
(* written as a composition of steps.  Field r is the Result the code has  *)
(* at that point: "ok", "err" (an Err being propagated by `?`), "panic",   *)
(* or "suspend" (the task awaits the next frame at s.pc).  A step applied  *)
(* to a state whose r is not "ok" leaves it as it is: the code after a `?` *)
(* that returned, a panic or an await does not run.  Field val is the      *)
(* value an Ok carries.                                                    *)
(***************************************************************************)
Ev(kind, v) == [ev |-> kind, v |-> v]

Jid(local, domain, resource) ==
    [local |-> local, domain |-> domain, resource |-> resource]

NoJid == Jid(None, "#none", None)

Engine ==
    [r |-> "ok", val |-> NoJid, pc |-> pc,
     starttls_allowed |-> starttls_allowed,
     secure |-> secure, authenticated |-> authenticated, has_rw |-> has_rw,
     wstack |-> wstack, connection_type |-> connection_type,
     features |-> features, jid |-> jid, peer_jid |-> peer_jid,
     peer_language |-> peer_language, element |-> element,
     pending |-> pending, sasl |-> sasl, log |-> log]

Commit(s) ==
    /\ pc' = s.pc
    /\ starttls_allowed' = s.starttls_allowed
    /\ secure' = s.secure
    /\ authenticated' = s.authenticated
    /\ has_rw' = s.has_rw
    /\ wstack' = s.wstack
    /\ connection_type' = s.connection_type
    /\ features' = s.features
    /\ jid' = s.jid
    /\ peer_jid' = s.peer_jid
    /\ peer_language' = s.peer_language
    /\ element' = s.element
    /\ pending' = s.pending
    /\ sasl' = s.sasl
    /\ log' = s.log

Logged(s, kind, v) == [s EXCEPT !.log = Append(@, Ev(kind, v))]

Err(s) == [s EXCEPT !.r = "err"]

Panic(s) == [s EXCEPT !.r = "panic"]

(***************************************************************************)
(* StreamWriter::write_* as the engine calls them through                  *)
(* XmppStream::writer(), which unwraps the Option.                         *)
(***************************************************************************)
write_str(s, str) ==
    IF s.r # "ok" THEN s
    ELSE IF sock_ok THEN Logged(s, "write", str) ELSE Err(s)

\* a built text goes out after the build has changed the writer's stack
write_built(s, b) ==
    IF b.assert /\ debug_build THEN Panic(s)
    ELSE write_str([s EXCEPT !.wstack = b.stack], b.xml)

write_xml_element(s, el) ==
    IF s.r # "ok" THEN s
    ELSE IF ~s.has_rw THEN Panic(s)
    ELSE write_built(s, build_xml_element(s.wstack, el))

write_stream_close(s) ==
    IF s.r # "ok" THEN s
    ELSE IF ~s.has_rw THEN Panic(s)
    ELSE write_built(s, build_closing_tag(s.wstack, StreamElement(None)))

write_stream_tag(s, from) ==
    IF s.r # "ok" THEN s
    ELSE write_built(s, build_opening_tag(s.wstack, StreamElement(from), FALSE))

write_stream_header(s, from) ==
    IF s.r # "ok" THEN s
    ELSE IF ~s.has_rw THEN Panic(s)
    ELSE write_stream_tag(write_str(s, "<?xml version='1.0'?>"), from)

(***************************************************************************)
(* xml/stream_parser/rusty_xml.rs: StreamParser as a stream of frames.     *)
(* What the peer sends is a sequence of tokens, each with the place it has *)
(* in that sequence: "start" is a <stream:stream> start tag, "close" the   *)
(* end tag </stream:stream>, "fragment" a complete element.  A read of the *)
(* socket takes some of the tokens that have arrived; the parser holds     *)
(* those it was fed and has not yet turned into an item.                   *)
(***************************************************************************)
TokenKinds == {"start", "fragment", "close"}

Token(kind, id) == [kind |-> kind, id |-> id]

NoBytes == [sent |-> 0, bytes |-> <<>>]

\* StreamParser::new: an empty buffer, Parser::new(), ElementBuilder::new()
stream_parser_new(reader) ==
    [reader |-> reader, buf |-> <<>>, closed |-> FALSE]

\* StreamParser::into_inner
into_inner(p) == p.reader

\* feed_str after a poll_read that took the first n tokens that had arrived
fed(p, bytes, n) == [p EXCEPT !.buf = @ \o SubSeq(bytes, 1, n)]

\* the item poll_next returns for the event the parser yields next
item_of(token) ==
    CASE token.kind = "start" -> Ev("StreamStart", token)
      [] token.kind = "close" -> Ev("None", token)
      [] OTHER -> Ev("XmlFragment", token)

\* what poll_next can return for it: how the XML parser goes on after the end
\* tag of the root is the library's matter, an error or the events as before
items_of(p, token) ==
    IF p.closed THEN {item_of(token), Ev("Err", token)} ELSE {item_of(token)}

\* the parser after that event
polled(p) ==
    [p EXCEPT !.buf = Tail(@), !.closed = @ \/ Head(p.buf).kind = "close"]

\* the parser rebuilt around its reader: stream.rs 84, 86
parser_rebuilt_keeping_buffer(p) == p

parser_rebuilt(p) == stream_parser_new(into_inner(p))

(***************************************************************************)
(* confidante-backend/src/store.rs: the Store actor and its StoreHandle.   *)
(* A request carries the sender of a oneshot channel whose receiver the    *)
(* calling task awaits; the receiver is gone when that task is dropped.    *)
(* The backend's answer is not looked into.                                *)
(***************************************************************************)
Callers == {"c1", "c2"}

Operations ==
    {"get_stored_password", "add_user", "remove_user", "set_stored_password"}

\* StoreHandle::new: two empty channels and the spawned task
store_handle_new == [alive |-> TRUE, queries |-> <<>>, commands |-> <<>>, issued |-> 0]

Idle == [state |-> "idle", n |-> 0]

Request(c, op, n) == [caller |-> c, op |-> op, n |-> n]

\* the channel of the handle an operation sends on
sent_on(st, req) ==
    IF req.op = "get_stored_password"
    THEN [st EXCEPT !.queries = Append(@, req), !.issued = @ + 1]
    ELSE [st EXCEPT !.commands = Append(@, req), !.issued = @ + 1]

\* the receiver of the request's oneshot channel is still awaited
receiver_alive(cs, req) ==
    cs[req.caller].state = "waiting" /\ cs[req.caller].n = req.n

\* result_tx.send(result), whose Err the handlers unwrap
replied(st, cs, req) ==
    IF receiver_alive(cs, req) THEN st ELSE [st EXCEPT !.alive = FALSE]

(***************************************************************************)
(* services/router.rs: the Router actor.  entities maps a JID to the       *)
(* sender of a mailbox, None where the map has no entry.                   *)
(***************************************************************************)
BareJid == "alice@localhost"

FullJids == {"alice@localhost/phone", "alice@localhost/tablet"}

RouterJids == {BareJid} \cup FullJids

Mailboxes == {"m1", "m2"}

Register(j, m) == [command |-> "Register", jid |-> j, tx |-> m]

Unregister(j) == [command |-> "Unregister", jid |-> j, tx |-> None]

\* RouterHandle::new: two empty channels and the spawned task
router_handle_new ==
    [stanzas |-> <<>>, management |-> <<>>,
     entities |-> [j \in RouterJids |-> None]]

handle_management_command_keeping_first(entities, command) ==
    IF command.command = "Register" /\ entities[command.jid] = None
    THEN [entities EXCEPT ![command.jid] = command.tx]
    ELSE IF command.command = "Register" THEN entities
    ELSE [entities EXCEPT ![command.jid] = None]

handle_management_command(entities, command) ==
    IF command.command = "Register"
    THEN [entities EXCEPT ![command.jid] = command.tx]
    ELSE [entities EXCEPT ![command.jid] = None]

\* route_stanza prints the stanza: no mailbox is sent anything
route_stanza_to(boxes, entities, stanza) == boxes

\* a connection as the router's peer: InboundStream::new leaves peer_jid
\* unset; at is how far the connection has come
inbound_stream_new == [peer_jid |-> None, at |-> "connected"]

\* the same without the Unregister
taken_not_unregistered(management, old) == management

\* register_peer_jid, lib.rs 237-243: peer_jid.take() and the Unregister
taken_and_unregistered(management, old) ==
    IF old = None THEN management ELSE Append(management, Unregister(old))

\* register_peer_jid, lib.rs 245-253: the Register of the new peer_jid
set_and_registered(management, new, tx) ==
    IF new = None THEN management ELSE Append(management, Register(new, tx))

(***************************************************************************)
(* utils/recorder.rs: StreamRecorder as an AsyncWrite.  `inner_stream` and *)
(* `output_recording` are the bytes the two sinks have accepted so far;    *)
(* `output_buffer` is the part of the 1024-byte buffer that has been       *)
(* written to, the rest of it still holding the zeros of try_new;          *)
(* `reported` sums the counts poll_write has returned.                     *)
(***************************************************************************)
BUFFER_SIZE == 1024

Least(a, b) == IF a < b THEN a ELSE b

PollPending == [poll |-> "Pending", n |-> 0]

PollReady(n) == [poll |-> "Ready", n |-> n]

PollPanic == [poll |-> "panic", n |-> 0]

\* what one poll_write of a sink can answer: Pending, or some of the bytes
SinkAnswers == {PollPending} \cup {PollReady(n) : n \in 1..MaxChunk}

\* the bytes the caller writes
Data == <<1, 2, 3, 4>>

stream_recorder_new ==
    [output_buffer |-> <<>>,
     output_bytes_written |-> 0,
     output_bytes_recorded |-> 0,
     inner_stream_needs_flush |-> FALSE,
     output_recording_needs_flush |-> FALSE,
     inner_stream |-> <<>>,
     output_recording |-> <<>>,
     reported |-> 0,
     poll |-> PollReady(0)]

byte_of(buffer, i) == IF i <= Len(buffer) THEN buffer[i] ELSE 0

\* &output_buffer[from..] cut to the n bytes a sink takes
bytes_from(buffer, from, n) == [j \in 1..n |-> byte_of(buffer, from + j)]

\* BufMut::put_slice on the buffer as a fresh &mut [u8]: copies to its start
put_slice(buffer, src) ==
    src \o [j \in 1..(Len(buffer) - Len(src)) |-> buffer[Len(src) + j]]

\* 147-160: both counts are equal, so the next bytes go to the inner stream
inner_written(r, buf, inner) ==
    IF inner.poll = "Pending"
    THEN [r EXCEPT !.output_bytes_written = 0, !.output_bytes_recorded = 0,
                   !.poll = PollPending]
    ELSE [r EXCEPT
            !.inner_stream =
                @ \o SubSeq(buf, 1, Least(inner.n, Least(Len(buf), BUFFER_SIZE))),
            !.output_buffer =
                put_slice(@, SubSeq(buf, 1,
                    Least(inner.n, Least(Len(buf), BUFFER_SIZE)))),
            !.output_bytes_written =
                Least(inner.n, Least(Len(buf), BUFFER_SIZE)),
            !.output_bytes_recorded = 0,
            !.inner_stream_needs_flush = TRUE,
            !.poll = PollReady(0)]

\* 162-169: the debug_assert, then buf[..output_bytes_written] goes to the
\* recording and the recording's count is what poll_write returns
recorded(r, buf, debug, file) ==
    IF r.poll.poll = "Pending" THEN r
    ELSE IF debug /\ ~(r.output_bytes_recorded < r.output_bytes_written)
    THEN [r EXCEPT !.poll = PollPanic]
    ELSE IF r.output_bytes_written > Len(buf)
    THEN [r EXCEPT !.poll = PollPanic]
    ELSE IF file.poll = "Pending"
    THEN [r EXCEPT !.poll = PollPending]
    ELSE [r EXCEPT
            !.output_recording =
                @ \o SubSeq(buf, 1, Least(file.n, r.output_bytes_written)),
            !.output_bytes_recorded =
                @ + Least(file.n, r.output_bytes_written),
            !.output_recording_needs_flush = TRUE,
            !.reported = @ + Least(file.n, r.output_bytes_written),
            !.poll = PollReady(Least(file.n, r.output_bytes_written))]

\* StreamRecorder::poll_write(buf), 140-170
poll_write(r, buf, debug, inner, file) ==
    recorded(IF r.output_bytes_written = r.output_bytes_recorded
             THEN inner_written(r, buf, inner)
             ELSE [r EXCEPT !.poll = PollReady(0)],
             buf, debug, file)

\* StreamRecorder::poll_flush, 172-202
poll_flush(r, file, inner_flushed, file_flushed) ==
    IF r.output_bytes_recorded < r.output_bytes_written
    THEN IF file.poll = "Pending"
         THEN [r EXCEPT !.poll = PollPending]
         ELSE [r EXCEPT
                 !.output_recording =
                     @ \o bytes_from(r.output_buffer, r.output_bytes_recorded,
                              Least(file.n,
                                    BUFFER_SIZE - r.output_bytes_recorded)),
                 !.output_bytes_recorded =
                     @ + Least(file.n, BUFFER_SIZE - r.output_bytes_recorded),
                 !.poll = PollPending]
    ELSE IF r.inner_stream_needs_flush /\ ~inner_flushed
    THEN [r EXCEPT !.poll = PollPending]
    ELSE IF r.output_recording_needs_flush /\ ~file_flushed
    THEN [r EXCEPT !.inner_stream_needs_flush = FALSE, !.poll = PollPending]
    ELSE [r EXCEPT !.inner_stream_needs_flush = FALSE,
                   !.output_recording_needs_flush = FALSE,
                   !.poll = PollReady(0)]

ApartInit ==
    /\ parser = stream_parser_new("plain")
    /\ socket = NoBytes
    /\ store = store_handle_new
    /\ callers = [c \in Callers |-> Idle]
    /\ router = router_handle_new
    /\ mailboxes = [m \in Mailboxes |-> <<>>]
    /\ recorder = stream_recorder_new
    /\ conns = [c \in Mailboxes |-> inbound_stream_new]

(***************************************************************************)
(* inbound/connection/tcp.rs: TcpConnection::upgrade, awaited.  An upgrade *)
(* outcome is what the TLS handshake comes to: it fails, or it yields a    *)
(* session, with or without a peer certificate; starttls_allowed is what   *)
(* the connection over that session answers to is_starttls_allowed.  The   *)
(* result is the upgraded connection as its three queries report it, and   *)
(* whether a handshake was driven.                                         *)
(***************************************************************************)
UpgradeOutcomes ==
    {[ok |-> FALSE, starttls_allowed |-> FALSE, authenticated |-> FALSE]}
    \cup {[ok |-> TRUE, starttls_allowed |-> a, authenticated |-> c] :
             a \in BOOLEAN, c \in BOOLEAN}

Upgraded(ok, handshake, allowed, sec, auth) ==
    [ok |-> ok, handshake |-> handshake, starttls_allowed |-> allowed,
     secure |-> sec, authenticated |-> auth]

upgrade_of_any_socket(sec, up) ==
    Upgraded(up.ok, TRUE, up.ok /\ up.starttls_allowed, up.ok,
             up.ok /\ up.authenticated)

upgrade(sec, up) ==
    IF sec THEN Upgraded(FALSE, FALSE, FALSE, FALSE, FALSE)
    ELSE Upgraded(up.ok, TRUE, up.ok /\ up.starttls_allowed, up.ok,
                  up.ok /\ up.authenticated)

(***************************************************************************)
(* xmpp/stream.rs: XmppStream::reset and XmppStream::upgrade_to_tls.       *)
(***************************************************************************)
reset_clearing_flags(s) ==
    IF s.r # "ok" THEN s
    ELSE IF ~s.has_rw THEN Panic(s)
    ELSE Logged([s EXCEPT !.wstack = NewWriter, !.secure = FALSE,
                          !.authenticated = FALSE],
                "reset", None)

reset(s) ==
    IF s.r # "ok" THEN s
    ELSE IF ~s.has_rw THEN Panic(s)
    ELSE Logged([s EXCEPT !.wstack = NewWriter], "reset", None)

\* the stream after connection.upgrade()?.await? has come to c
upgraded(s, c) ==
    IF ~c.ok
    THEN Logged([s EXCEPT !.has_rw = FALSE, !.r = "err"], "upgrade", "failed")
    ELSE Logged([s EXCEPT !.starttls_allowed = c.starttls_allowed,
                          !.secure = c.secure,
                          !.authenticated = c.authenticated,
                          !.wstack = NewWriter],
                "upgrade", "ok")

upgrade_to_tls_not_rebuilding(s, up) ==
    IF s.r # "ok" THEN s
    ELSE IF ~s.has_rw THEN Panic(s)
    ELSE [upgraded(s, upgrade(s.secure, up)) EXCEPT !.has_rw = FALSE]

upgrade_to_tls(s, up) ==
    IF s.r # "ok" THEN s
    ELSE IF ~s.has_rw THEN Panic(s)
    ELSE upgraded(s, upgrade(s.secure, up))

(***************************************************************************)
(* xmpp/jid.rs                                                             *)
(***************************************************************************)
jid_bind(j, resource) == [j EXCEPT !.resource = resource]

jid_to_string(j) ==
    (IF j.local # None THEN j.local \o "@" \o j.domain ELSE j.domain)
    \o (IF j.resource # None THEN "/" \o j.resource ELSE "")

Domain == "localhost"

(***************************************************************************)
(* sasl/scram.rs: the key derivation of StoredPasswordScram::new.  PBKDF2, *)
(* HMAC and the digest are terms over their arguments: two results are     *)
(* equal exactly when the function and all arguments are.                  *)
(***************************************************************************)
SCRAM_ITERATIONS == 4096

Digests == {"Sha1", "Sha256"}

\* the decimal texts of the iteration counts the model uses
Decimals == {<<1, "1">>, <<4095, "4095">>, <<4096, "4096">>}

to_decimal(n) == (CHOOSE p \in Decimals : p[1] = n)[2]

Passwords == {"secret", "hunter2"}

\* texts SaltString::generate can return
Salts == {"c2FsdA", "cGVwcGVy"}

hash_password(d, password, iterations, salt) ==
    "Hi-" \o d \o "(" \o password \o "," \o salt \o "," \o to_decimal(iterations) \o ")"

derive_keys(d, salted_password) ==
    [client_key |-> "HMAC-" \o d \o "(" \o salted_password \o ",Client Key)",
     server_key |-> "HMAC-" \o d \o "(" \o salted_password \o ",Server Key)"]

digest(d, data) == "H-" \o d \o "(" \o data \o ")"

\* the keys new can store for the passwords and salts above
DerivedKeys ==
    UNION {{digest(d, derive_keys(d, hash_password(d, p, SCRAM_ITERATIONS, salt)).client_key),
            derive_keys(d, hash_password(d, p, SCRAM_ITERATIONS, salt)).server_key} :
               <<d, p, salt>> \in Digests \X Passwords \X Salts}

(***************************************************************************)
(* base64: the strings the exchanges of the model use, with their          *)
(* encodings.  Any other text fails to decode.                             *)
(***************************************************************************)
ClientFirst == "n,,n=alice,r=cnonce"
ClientFirstUnknown == "n,,n=mallory,r=cnonce"
ClientFinal == "c=biws,r=cnoncesnonce,p=proof"
ServerFirst == "r=cnoncesnonce,s=c2FsdA==,i=4096"
ServerFinal == "v=signature"

Base64Table ==
    {<<"", "">>,
     <<ClientFirst, "biwsbj1hbGljZSxyPWNub25jZQ==">>,
     <<ClientFirstUnknown, "biwsbj1tYWxsb3J5LHI9Y25vbmNl">>,
     <<ClientFinal, "Yz1iaXdzLHI9Y25vbmNlc25vbmNlLHA9cHJvb2Y=">>,
     <<ServerFirst, "cj1jbm9uY2Vzbm9uY2Uscz1jMkZzZEE9PSxpPTQwOTY=">>,
     <<ServerFinal, "dj1zaWduYXR1cmU=">>,
     <<"c2FsdA", "YzJGc2RB">>,
     <<"cGVwcGVy", "Y0dWd2NHVnk=">>,
     <<"key", "a2V5">>}
    \cup {<<k, "base64(" \o k \o ")">> : k \in DerivedKeys}

base64_encode(bytes) == (CHOOSE p \in Base64Table : p[1] = bytes)[2]

base64_valid(t) == \E p \in Base64Table : p[2] = t

base64_decode(t) == (CHOOSE p \in Base64Table : p[2] = t)[1]

(***************************************************************************)
(* sasl/scram.rs: StoredPasswordScram<D> and its textual form.  A text is  *)
(* the sequence of its pieces, "$" being a piece of its own; no other      *)
(* piece holds a "$".                                                      *)
(***************************************************************************)
StoredPasswordScram(d, iterations, salt, stored_key, server_key) ==
    [digest |-> d, iterations |-> iterations, salt |-> salt,
     stored_key |-> stored_key, server_key |-> server_key]

\* MechanismDigest::mechanism_name
mechanism_name(d, channel_binding) ==
    (IF d = "Sha1" THEN "SCRAM-SHA-1" ELSE "SCRAM-SHA-256")
        \o (IF channel_binding THEN "-PLUS" ELSE "")

stored_password_new_swapping_keys(d, plaintext, salt) ==
    StoredPasswordScram(
        d, SCRAM_ITERATIONS, salt,
        derive_keys(d, hash_password(d, plaintext, SCRAM_ITERATIONS, salt)).server_key,
        digest(d, derive_keys(d, hash_password(d, plaintext, SCRAM_ITERATIONS,
                                               salt)).client_key))

\* StoredPasswordScram::new, salt being the text SaltString::generate returned
stored_password_new(d, plaintext, salt) ==
    StoredPasswordScram(
        d, SCRAM_ITERATIONS, salt,
        digest(d, derive_keys(d, hash_password(d, plaintext, SCRAM_ITERATIONS,
                                               salt)).client_key),
        derive_keys(d, hash_password(d, plaintext, SCRAM_ITERATIONS, salt)).server_key)

stored_password_fmt_unprefixed(e) ==
    <<mechanism_name(e.digest, FALSE), "$", to_decimal(e.iterations),
      "$", base64_encode(e.salt), "$", base64_encode(e.stored_key),
      "$", base64_encode(e.server_key)>>

\* impl Display: write!(f, "${}${}${}${}${}", ..)
stored_password_fmt(e) ==
    <<"$", mechanism_name(e.digest, FALSE), "$", to_decimal(e.iterations),
      "$", base64_encode(e.salt), "$", base64_encode(e.stored_key),
      "$", base64_encode(e.server_key)>>

\* str::split('$'), parts being the parts begun so far
RECURSIVE split_into(_, _)
split_into(parts, str) ==
    IF str = <<>> THEN parts
    ELSE IF Head(str) = "$" THEN split_into(Append(parts, ""), Tail(str))
    ELSE split_into([parts EXCEPT ![Len(parts)] = @ \o Head(str)], Tail(str))

split(str) == split_into(<<"">>, str)

\* str::parse::<NonZero<u32>> succeeds
parse_valid(t) == \E p \in Decimals : p[2] = t

parse(t) == (CHOOSE p \in Decimals : p[2] = t)[1]

ParseErr == [ok |-> FALSE, entry |-> StoredPasswordScram(None, 0, "", "", "")]

\* impl FromStr, from the parts of the text
from_parts(d, parts) ==
    IF Len(parts) # 6 THEN ParseErr
    ELSE IF ~parse_valid(parts[3]) THEN ParseErr
    ELSE IF ~base64_valid(parts[4]) THEN ParseErr
    ELSE IF ~base64_valid(parts[5]) THEN ParseErr
    ELSE IF ~base64_valid(parts[6]) THEN ParseErr
    ELSE IF parse(parts[3]) # SCRAM_ITERATIONS THEN ParseErr
    ELSE [ok |-> TRUE,
          entry |-> StoredPasswordScram(d, parse(parts[3]), base64_decode(parts[4]),
                                        base64_decode(parts[5]),
                                        base64_decode(parts[6]))]

stored_password_from_str(d, str) == from_parts(d, split(str))

\* the outcome of the client's final message: the client derives its keys
\* from its password and from the salt and iteration count of the entry the
\* callback handed to the session (RFC 5802), and its proof verifies when
\* the stored key it arrives at is the entry's
proof_verifies(stored, password) ==
    digest(stored.digest,
           derive_keys(stored.digest,
                       hash_password(stored.digest, password, stored.iterations,
                                     stored.salt)).client_key)
        = stored.stored_key

(***************************************************************************)
(* lib.rs: InboundStream::negotiable_features                              *)
(***************************************************************************)
Features == {"Tls", "Authentication", "ResourceBinding"}

\* negotiable_features without the TLS requirement on Authentication
negotiable_features_ignoring_tls(sa, tr, ct, neg) ==
    (IF sa /\ "Tls" \notin neg THEN <<"Tls">> ELSE <<>>)
    \o (IF "Authentication" \notin neg THEN <<"Authentication">> ELSE <<>>)
    \o (IF ct = "Client" /\ "Authentication" \in neg
           /\ "ResourceBinding" \notin neg
        THEN <<"ResourceBinding">> ELSE <<>>)

negotiable_features(sa, tr, ct, neg) ==
    (IF sa /\ "Tls" \notin neg THEN <<"Tls">> ELSE <<>>)
    \o (IF (~tr \/ "Tls" \in neg) /\ "Authentication" \notin neg
        THEN <<"Authentication">> ELSE <<>>)
    \o (IF ct = "Client" /\ "Authentication" \in neg
           /\ "ResourceBinding" \notin neg
        THEN <<"ResourceBinding">> ELSE <<>>)

NegotiableFeatures(s) ==
    negotiable_features(s.starttls_allowed, tls_required, s.connection_type,
                        s.features)

(***************************************************************************)
(* sasl.rs: mechanisms and their advertisement                             *)
(***************************************************************************)
mechanism_available(m, sec, auth) ==
    CASE m = "External" -> sec /\ auth
      [] m = "Plain" -> sec
      [] OTHER -> TRUE

mechanism_to_string(m) ==
    CASE m = "External" -> "EXTERNAL"
      [] m = "Plain" -> "PLAIN"
      [] m = "ScramSha1" -> "SCRAM-SHA-1"
      [] m = "ScramSha1Plus" -> "SCRAM-SHA-1-PLUS"
      [] m = "ScramSha256" -> "SCRAM-SHA-256"
      [] OTHER -> "SCRAM-SHA-256-PLUS"

mechanism_into_element(m) ==
    add_text(Element("mechanism", XMPP_SASL), mechanism_to_string(m))

\* TryFrom<&str> for Mechanism; "Err" is the UnsupportedMechanism error
mechanism_try_from(value) ==
    CASE value = "EXTERNAL" -> "External"
      [] value = "PLAIN" -> "Plain"
      [] value = "SCRAM-SHA-1" -> "ScramSha1"
      [] OTHER -> "Err"

\* one `if mechanism_available { add_child }` of advertise_feature
with_mechanism(mechanisms, m, sec, auth) ==
    IF mechanism_available(m, sec, auth)
    THEN add_child(mechanisms, mechanism_into_element(m)) ELSE mechanisms

\* NoElement stands for the todo!() of an empty mechanism list
with_xmlns(mechanisms) ==
    IF mechanisms.children = <<>> THEN NoElement
    ELSE set_attribute(mechanisms, "xmlns", None, XMPP_SASL)

sasl_advertise_feature(sec, auth) ==
    with_xmlns(
        with_mechanism(
            with_mechanism(
                with_mechanism(Element("mechanisms", XMPP_SASL),
                               "External", sec, auth),
                "ScramSha1", sec, auth),
            "Plain", sec, auth))

starttls_advertise_feature ==
    set_attribute(Element("starttls", XMPP_STARTTLS), "xmlns", None, XMPP_STARTTLS)

bind_advertise_feature ==
    set_attribute(Element("bind", XMPP_BIND), "xmlns", None, XMPP_BIND)

(***************************************************************************)
(* lib.rs: the engine's helpers                                            *)
(***************************************************************************)
ErrorElement ==
    add_child(Element("error", XMPP_STREAMS),
              set_attribute(Element("internal-server-error", XMPP_STREAM_ERRORS),
                            "xmlns", None, XMPP_STREAM_ERRORS))

handle_unrecoverable_error(s) ==
    write_stream_close(write_xml_element(s, ErrorElement))

\* the header's `to` is carried in the StreamHeader; the writer emits `from`
send_stream_header(s, to) == write_stream_header(s, Domain)

RECURSIVE feature_elements(_, _)
feature_elements(s, feats) ==
    IF feats = <<>> THEN <<>>
    ELSE << CASE Head(feats) = "Tls" -> starttls_advertise_feature
              [] Head(feats) = "Authentication" ->
                     sasl_advertise_feature(s.secure, s.authenticated)
              [] OTHER -> bind_advertise_feature >>
         \o feature_elements(s, Tail(feats))

features_element(s, kids) ==
    IF \E i \in 1..Len(kids) : kids[i] = NoElement THEN Panic(s)
    ELSE write_xml_element(s, [Element("features", XMPP_STREAMS)
                                   EXCEPT !.children = kids])

advertise_features(s) ==
    IF s.r # "ok" THEN s
    ELSE features_element(s, feature_elements(s, NegotiableFeatures(s)))

\* register_peer_jid; the router's management channel stays open
unregister_old(s) ==
    IF s.peer_jid # NoJid
    THEN Logged(s, "mgmt", <<"Unregister", s.peer_jid>>) ELSE s

register_new(s) ==
    IF s.peer_jid # NoJid
    THEN Logged(s, "mgmt", <<"Register", s.peer_jid>>) ELSE s

register_peer_jid(s, new) ==
    IF s.r # "ok" THEN s
    ELSE register_new(Logged([unregister_old(s) EXCEPT !.peer_jid = new],
                             "peer_jid", new))

insert_feature_replacing(s, f) ==
    IF s.r # "ok" THEN s
    ELSE Logged([s EXCEPT !.features = {f}], "insert", f)

insert_feature(s, f) ==
    IF s.r # "ok" THEN s
    ELSE Logged([s EXCEPT !.features = @ \cup {f}], "insert", f)

\* the bail!() that follows the error written for a frame that is no header
bail(s) == IF s.r # "ok" THEN s ELSE Err(s)

\* exchange_stream_headers, from the frame the reader yielded
exchange_stream_headers(s, item) ==
    IF s.r # "ok" THEN s
    ELSE IF item.kind = "eof" THEN Err(s)
    ELSE IF item.kind # "start"
    THEN bail(handle_unrecoverable_error(send_stream_header(s, NoJid)))
    ELSE send_stream_header([s EXCEPT !.jid = item.to,
                                      !.peer_language = item.lang,
                                      !.connection_type = settings_ct],
                            s.peer_jid)

\* the task awaits the next frame at `where`; reader() unwraps the Option
Suspend(s, where) ==
    IF s.r # "ok" THEN s
    ELSE IF ~s.has_rw THEN Panic(s)
    ELSE [s EXCEPT !.r = "suspend", !.pc = where]

(***************************************************************************)
(* starttls.rs: StarttlsNegotiator::negotiate_feature                      *)
(***************************************************************************)
ProceedElement ==
    set_attribute(Element("proceed", XMPP_STARTTLS), "xmlns", None, XMPP_STARTTLS)

starttls_negotiate_feature(s, el, up) ==
    IF s.r # "ok" THEN s
    ELSE IF validate(el, "starttls", XMPP_STARTTLS) THEN Err(s)
    ELSE upgrade_to_tls(write_xml_element(s, ProceedElement), up)

(***************************************************************************)
(* sasl.rs, sasl/scram.rs, sasl/common.rs: the SASL driver and the SCRAM   *)
(* mechanism negotiator.  The negotiator's worker steps an RFC 5802 server *)
(* session: client-first is answered by a challenge, client-final by       *)
(* success or failure, and the worker ends with the session.               *)
(***************************************************************************)
NoSasl == [mech |-> None, phase |-> None, authid |-> None]

\* the authid of a client-first-message, None when it does not parse
client_first_authid(payload) ==
    CASE payload = ClientFirst -> "alice"
      [] payload = ClientFirstUnknown -> "mallory"
      [] OTHER -> None

\* the users with a SCRAM entry in the store
StoredUsers == {"alice"}

\* SessionCallbackExt::lookup_stored_password as ScramCallback::callback
\* uses it: TRUE when the store returned an entry and the request for the
\* stored password was satisfied.  A session whose request stays unsatisfied
\* has no salt or iteration count for a server-first message: its step fails.
lookup_stored_password(authid) == authid \in StoredUsers

\* the JID a mechanism reports with Success
SuccessJid(authid, resolved_domain) == Jid(authid, resolved_domain, None)

ProcessResult(result, data, peer, neg) ==
    [result |-> result, data |-> data, jid |-> peer, neg |-> neg]

\* ScramNegotiator::process; proof_ok: the client proof verifies against the
\* stored entry.  A worker that has finished has closed its channels.
scram_process(neg, payload, proof_ok) ==
    CASE neg.phase = "first" /\ client_first_authid(payload) # None
                             /\ lookup_stored_password(client_first_authid(payload)) ->
            ProcessResult("Challenge", ServerFirst, NoJid,
                          [neg EXCEPT !.phase = "final",
                                      !.authid = client_first_authid(payload)])
      [] neg.phase = "final" /\ payload = ClientFinal /\ proof_ok ->
            ProcessResult("Success", ServerFinal,
                          SuccessJid(neg.authid, "localhost"),
                          [neg EXCEPT !.phase = "finished"])
      [] neg.phase \in {"first", "final"} ->
            ProcessResult("Failure", "", NoJid, [neg EXCEPT !.phase = "finished"])
      [] OTHER -> ProcessResult("Panic", "", NoJid, neg)

SaslElement(name) ==
    set_attribute(Element(name, XMPP_SASL), "xmlns", None, XMPP_SASL)

\* the element the driver writes for a result (sasl.rs 112-135)
sasl_reply(p) ==
    CASE p.result = "Challenge" ->
            add_text(SaslElement("challenge"), base64_encode(p.data))
      [] p.result = "Success" ->
            add_text(SaslElement("success"), base64_encode(p.data))
      [] OTHER ->
            add_child(SaslElement("failure"), Element("not-authorized", XMPP_SASL))

\* after the reply is written: return the JID, or read the next frame
sasl_replied(w, p) ==
    IF p.result = "Success"
    THEN (IF w.r # "ok" THEN w ELSE [w EXCEPT !.val = p.jid])
    ELSE Suspend(w, "sasl")

sasl_turn(s, p) ==
    IF p.result = "Panic" THEN Panic(s)
    ELSE sasl_replied(write_xml_element([s EXCEPT !.sasl = p.neg], sasl_reply(p)),
                      p)

\* one turn of the driver's loop (sasl.rs 108-136), up to the next read
sasl_loop(s, payload, proof_ok) ==
    IF s.r # "ok" THEN s
    ELSE sasl_turn(s, scram_process(s.sasl, payload, proof_ok))

\* Mechanism::negotiator: todo!() for EXTERNAL and PLAIN
negotiator(s, m) ==
    IF m \in {"External", "Plain"} THEN Panic(s)
    ELSE [s EXCEPT !.sasl = [mech |-> m, phase |-> "first", authid |-> None]]

\* the two unwraps of sasl.rs 100 and 105 around Mechanism::negotiator
sasl_begin(s, m, encoded, proof_ok) ==
    IF m = "Err" THEN Panic(s)
    ELSE IF ~base64_valid(encoded) THEN Panic(negotiator(s, m))
    ELSE sasl_loop(negotiator(s, m), base64_decode(encoded), proof_ok)

\* SaslNegotiator::negotiate_feature from its entry (sasl.rs 95-105)
sasl_negotiate_feature(s, el, proof_ok) ==
    IF s.r # "ok" THEN s
    ELSE IF ~validate(el, "auth", XMPP_SASL) THEN Err(s)
    ELSE IF attribute(el, "mechanism", None) = None THEN Err(s)
    ELSE sasl_begin(s, mechanism_try_from(attribute(el, "mechanism", None)),
                    text(el), proof_ok)

\* SaslNegotiator::negotiate_feature resumed with the frame read at
\* sasl.rs 138
sasl_response(s, item, proof_ok) ==
    IF item.kind # "fragment" THEN Err(s)
    ELSE IF ~validate(item.el, "response", XMPP_SASL) THEN Err(s)
    ELSE IF ~base64_valid(text(item.el)) THEN Panic(s)
    ELSE sasl_loop(s, base64_decode(text(item.el)), proof_ok)

(***************************************************************************)
(* bind.rs: ResourceBindingNegotiator::negotiate_feature                   *)
(***************************************************************************)
FreshUuid == "uuid-1"

BindResponse(request_id, bound) ==
    add_child(
        set_attribute(set_attribute(Element("iq", None), "id", None, request_id),
                      "type", None, "result"),
        add_child(set_attribute(Element("bind", XMPP_BIND), "xmlns", None, XMPP_BIND),
                  add_text(Element("jid", None), jid_to_string(bound))))

bind_resource_always_fresh(requested) == FreshUuid

\* the resource of a bind request: the one asked for, or a fresh UUID
bind_resource(requested) ==
    IF requested # NoElement THEN text(requested) ELSE FreshUuid

bind_respond(s, request_id, bound) ==
    IF s.r # "ok" THEN s
    ELSE [write_xml_element(s, BindResponse(request_id, bound))
              EXCEPT !.val = bound]

bind_request(s, el, bind_el, entity) ==
    IF bind_el = NoElement THEN Err(s)
    ELSE IF entity = NoJid THEN Err(s)
    ELSE bind_respond(s, attribute(el, "id", None),
                      jid_bind(entity,
                               bind_resource(find_child(bind_el, "resource",
                                                        XMPP_BIND))))

bind_negotiate_feature(s, el, entity) ==
    IF s.r # "ok" THEN s
    ELSE IF validate(el, "iq", XMPP_CLIENT) THEN Err(s)
    ELSE IF attribute(el, "type", None) # "set" THEN Err(s)
    ELSE IF attribute(el, "id", None) = None THEN Err(s)
    ELSE bind_request(s, el, find_child(el, "bind", XMPP_BIND), entity)

(***************************************************************************)
(* lib.rs: InboundStream::negotiate_feature and process_element            *)
(***************************************************************************)
\* lib.rs 198-200, up to the read of exchange_stream_headers
after_starttls(s) ==
    Suspend(reset(insert_feature(s, "Tls")), "exchange_after_tls")

\* after_authentication without the registration of the peer's JID
after_authentication_unregistered(s) ==
    Suspend(reset(insert_feature([s EXCEPT !.sasl = NoSasl], "Authentication")),
            "exchange_after_auth")

\* lib.rs 212-216, up to the read of exchange_stream_headers
after_authentication(s) ==
    Suspend(reset(insert_feature(register_peer_jid([s EXCEPT !.sasl = NoSasl],
                                                   s.val),
                                 "Authentication")),
            "exchange_after_auth")

\* what negotiate_feature does with the SASL driver's state: the driver has
\* returned the JID, is still running, or has returned an error
after_sasl(s) ==
    CASE s.r = "ok" -> after_authentication(s)
      [] s.r = "suspend" -> s
      [] OTHER -> [s EXCEPT !.sasl = NoSasl]

\* lib.rs 229-230
after_bind(s) ==
    IF s.r # "ok" THEN s
    ELSE insert_feature(register_peer_jid(s, s.val), "ResourceBinding")

negotiate_feature(s, feature, el, up, proof_ok) ==
    CASE feature = "Tls" ->
            after_starttls(starttls_negotiate_feature(s, el, up))
      [] feature = "Authentication" ->
            after_sasl(sasl_negotiate_feature(s, el, proof_ok))
      [] OTHER ->
            after_bind(bind_negotiate_feature(s, el, s.peer_jid))

\* lib.rs 200-201 and 216-217, from the frame exchange_stream_headers read
resume_exchange(s, item) ==
    advertise_features(exchange_stream_headers(s, item))

\* lib.rs 157-161: the router's stanza channel stays open
route_stanza(s, el) == Logged(s, "route", el)

RECURSIVE try_features(_, _, _, _, _)
RECURSIVE tried(_, _, _, _, _)

\* process_element after negotiate_feature has returned n for Head(feats)
tried(n, el, feats, up, proof_ok) ==
    CASE n.r = "err" ->
            try_features([n EXCEPT !.r = "ok"], el, Tail(feats), up, proof_ok)
      [] n.r = "suspend" ->
            [n EXCEPT !.element = el, !.pending = Tail(feats)]
      [] OTHER -> n

\* the for loop of process_element over the features not tried yet
try_features(s, el, feats, up, proof_ok) ==
    IF feats = <<>> THEN route_stanza(s, el)
    ELSE tried(negotiate_feature(s, Head(feats), el, up, proof_ok),
               el, feats, up, proof_ok)

process_element(s, el, up, proof_ok) ==
    try_features(s, el, NegotiableFeatures(s), up, proof_ok)

(***************************************************************************)
(* lib.rs: InboundStream::handle and inner_handle                          *)
(***************************************************************************)
Ended(s, how) ==
    [s EXCEPT !.pc = how, !.r = "ok", !.val = NoJid, !.element = NoElement,
              !.pending = <<>>, !.sasl = NoSasl]

\* how the task ends once the last write has returned s
EndedAs(s, how) == Ended(s, IF s.r = "panic" THEN "panicked" ELSE how)

\* handle's Err arm (lib.rs 120-122)
Fatal(s) == EndedAs(handle_unrecoverable_error([s EXCEPT !.r = "ok"]), "done_err")

\* the next turn of inner_handle's loop: select! awaits reader().next()
EnterLoop(s) ==
    IF ~s.has_rw THEN Ended(s, "panicked")
    ELSE [s EXCEPT !.pc = "loop", !.r = "ok", !.val = NoJid,
                   !.element = NoElement, !.pending = <<>>]

\* inner_handle after a step that left Result s.r
Settle(s) ==
    CASE s.r = "suspend" -> s
      [] s.r = "panic" -> Ended(s, "panicked")
      [] s.r = "err" -> Fatal(s)
      [] OTHER -> EnterLoop(s)

\* process_element resumed after the negotiation it awaited has returned n,
\* and inner_handle after it
Resumed(n, up, proof_ok) ==
    Settle(IF n.r = "err"
           THEN try_features([n EXCEPT !.r = "ok"], n.element, n.pending,
                             up, proof_ok)
           ELSE n)

(***************************************************************************)
(* What the peer can send: the frames the parser yields.                   *)
(***************************************************************************)
Item(kind, el, to, lang) == [kind |-> kind, el |-> el, to |-> to, lang |-> lang]

BindRequest(ns) ==
    add_child(set_attribute(set_attribute(Element("iq", ns), "type", None, "set"),
                            "id", None, "b1"),
              Element("bind", XMPP_BIND))

\* a bind request that asks for a resource
BindRequestWith(ns, resource) ==
    add_child(set_attribute(set_attribute(Element("iq", ns), "type", None, "set"),
                            "id", None, "b1"),
              add_child(Element("bind", XMPP_BIND),
                        add_text(Element("resource", XMPP_BIND), resource)))

AuthElement(mechanism, payload) ==
    add_text(set_attribute(Element("auth", XMPP_SASL), "mechanism", None, mechanism),
             payload)

Fragments ==
    {Element("starttls", XMPP_STARTTLS),
     AuthElement("SCRAM-SHA-1", base64_encode(ClientFirst)),
     AuthElement("SCRAM-SHA-1", base64_encode(ClientFirstUnknown)),
     AuthElement("SCRAM-SHA-256", base64_encode(ClientFirst)),
     AuthElement("PLAIN", ""),
     add_text(Element("response", XMPP_SASL), base64_encode(ClientFinal)),
     Element("abort", XMPP_SASL),
     BindRequest(XMPP_CLIENT),
     BindRequest(XMPP_SERVER),
     BindRequestWith(XMPP_SERVER, "phone")}

Items ==
    {Item("eof", NoElement, NoJid, None),
     Item("err", NoElement, NoJid, None),
     Item("start", NoElement, Jid(None, "localhost", None), "en")}
    \cup {Item("fragment", el, NoJid, None) : el \in Fragments}

Terminal == {"done_ok", "done_err", "panicked"}

(***************************************************************************)
(* The engine: initial state and actions.                                  *)
(***************************************************************************)
Init ==
    /\ pc = "exchange_initial"
    /\ debug_build \in BOOLEAN
    /\ sock_ok = TRUE
    /\ starttls_allowed \in BOOLEAN
    /\ secure = FALSE
    /\ authenticated = FALSE
    /\ has_rw = TRUE
    /\ wstack = NewWriter
    /\ tls_required \in BOOLEAN
    /\ settings_ct = "Client"   \* as main.rs builds the settings
    /\ connection_type = None
    /\ features = {}
    /\ jid = NoJid
    /\ peer_jid = NoJid
    /\ peer_language = None
    /\ element = NoElement
    /\ pending = <<>>
    /\ sasl = NoSasl
    /\ log = <<>>
    /\ reads = 0
    /\ stanzas = 0
    /\ ret = NoRet
    /\ ApartInit

\* The handshake's outcome is drawn where the engine can upgrade: while Tls
\* is negotiable.  A negotiation resumed after a reset never has Tls among
\* the features left to try, and a SCRAM exchange consults the proof only
\* on the client's final message, which SaslRead reads.
NoUpgrade == [ok |-> FALSE, starttls_allowed |-> FALSE, authenticated |-> FALSE]

UpgradesAt(s) ==
    IF \E i \in DOMAIN NegotiableFeatures(s) : NegotiableFeatures(s)[i] = "Tls"
    THEN UpgradeOutcomes ELSE {NoUpgrade}

Frame == <<debug_build, sock_ok, tls_required, settings_ct, stanzas, ret, Apart>>

\* inner_handle from its entry: lib.rs 127-128
ExchangeInitial ==
    /\ pc = "exchange_initial"
    /\ reads < MaxReads
    /\ \E item \in Items :
          Commit(Settle(resume_exchange(Logged(Engine, "read", item), item)))
    /\ reads' = reads + 1
    /\ UNCHANGED Frame

\* the parser side of the select!: lib.rs 132-141
LoopFrame ==
    /\ pc = "loop"
    /\ reads < MaxReads
    /\ \E item \in Items, up \in UpgradesAt(Engine) :
          IF item.kind = "fragment"
          THEN Commit(Settle(process_element(Logged(Engine, "read", item),
                                             item.el, up, FALSE)))
          ELSE Commit(EndedAs(write_stream_close(Logged(Engine, "read", item)),
                              "done_ok"))
    /\ reads' = reads + 1
    /\ UNCHANGED Frame

\* the connection's own mailbox among the channels
stanza_rx == "m1"

STANZA_CHANNEL_BUFFER_SIZE == 8

StanzaIds == <<"s1", "s2", "s3", "s4">>

\* the n-th stanza the sender enqueues
Message(n) ==
    set_attribute(Element("message", XMPP_CLIENT), "id", None, StanzaIds[n])

\* mpsc::Receiver::recv on a channel that holds something
recv(mailbox) == [stanza |-> Head(mailbox), rest |-> Tail(mailbox)]

\* a holder of the Sender the connection registered sends a stanza
StanzaSent ==
    /\ pc \notin Terminal
    /\ peer_jid # NoJid
    /\ stanzas + Len(mailboxes[stanza_rx]) < MaxStanzas
    /\ Len(mailboxes[stanza_rx]) < STANZA_CHANNEL_BUFFER_SIZE
    /\ mailboxes' = [mailboxes EXCEPT
                        ![stanza_rx] =
                            Append(@, Message(stanzas + Len(@) + 1))]
    /\ UNCHANGED <<EngineVars, ret, parser, socket, store, callers, router,
                   recorder, conns>>

\* the mailbox side of the select!: lib.rs 142-144
LoopStanza ==
    /\ pc = "loop"
    /\ mailboxes[stanza_rx] # <<>>
    /\ Commit(Settle(write_xml_element(
                  Logged(Engine, "stanza", recv(mailboxes[stanza_rx]).stanza),
                  recv(mailboxes[stanza_rx]).stanza)))
    /\ mailboxes' = [mailboxes EXCEPT ![stanza_rx] = recv(@).rest]
    /\ stanzas' = stanzas + 1
    /\ UNCHANGED <<debug_build, sock_ok, tls_required, settings_ct, reads, ret,
                   parser, socket, store, callers, router, recorder,
                   conns>>

\* the SASL driver's read: sasl.rs 138-148
SaslRead ==
    /\ pc = "sasl"
    /\ reads < MaxReads
    /\ \E item \in Items, proof_ok \in BOOLEAN :
          Commit(Resumed(after_sasl(sasl_response(Logged(Engine, "read", item),
                                                  item, proof_ok)),
                         NoUpgrade, proof_ok))
    /\ reads' = reads + 1
    /\ UNCHANGED Frame

\* exchange_stream_headers after a reset: lib.rs 200-201, 216-217
ExchangeAfterReset ==
    /\ pc \in {"exchange_after_tls", "exchange_after_auth"}
    /\ reads < MaxReads
    /\ \E item \in Items :
          Commit(Resumed(resume_exchange(Logged(Engine, "read", item), item),
                         NoUpgrade, FALSE))
    /\ reads' = reads + 1
    /\ UNCHANGED Frame

\* the peer or the network closes the socket for writing
SocketBreak ==
    /\ pc \notin Terminal
    /\ sock_ok
    /\ sock_ok' = FALSE
    /\ UNCHANGED <<pc, debug_build, starttls_allowed, secure, authenticated,
                   has_rw, wstack, tls_required, settings_ct, connection_type,
                   features, jid, peer_jid, peer_language, element, pending,
                   sasl, log, reads, stanzas, ret, Apart>>

Next ==
    \/ ExchangeInitial
    \/ LoopFrame
    \/ StanzaSent
    \/ LoopStanza
    \/ SaslRead
    \/ ExchangeAfterReset
    \/ SocketBreak

Spec == Init /\ [][Next]_vars

(***************************************************************************)
(* XmppStream on its own: new, then reset and upgrade_to_tls called in any *)
(* order.  A call that panics ends the sequence; an upgrade that returns   *)
(* Err leaves the stream to its caller.                                    *)
(***************************************************************************)
InitStream ==
    /\ pc = "stream"
    /\ debug_build = FALSE
    /\ sock_ok = TRUE
    /\ starttls_allowed \in BOOLEAN
    /\ secure \in BOOLEAN
    /\ authenticated \in BOOLEAN
    /\ has_rw = TRUE
    /\ wstack = NewWriter
    /\ tls_required = FALSE
    /\ settings_ct = "Client"
    /\ connection_type = None
    /\ features = {}
    /\ jid = NoJid
    /\ peer_jid = NoJid
    /\ peer_language = None
    /\ element = NoElement
    /\ pending = <<>>
    /\ sasl = NoSasl
    /\ log = <<>>
    /\ reads = 0
    /\ stanzas = 0
    /\ ret = NoRet
    /\ ApartInit

Returned(op, arg, val) == [op |-> op, arg |-> arg, val |-> val]

\* the stream as a call leaves it
Called(s) == IF s.r = "panic" THEN [s EXCEPT !.pc = "panicked"] ELSE s

StreamReset ==
    /\ pc = "stream"
    /\ Len(log) < MaxCalls
    /\ Commit(Called(reset(Engine)))
    /\ parser' = IF has_rw THEN parser_rebuilt(parser) ELSE parser
    /\ UNCHANGED <<debug_build, sock_ok, tls_required, settings_ct, reads,
                   stanzas, ret, socket, store, callers, router, mailboxes,
                   recorder, conns>>

\* the halves are reunited and split again: the reader of the new parser is
\* the read half of the upgraded connection
StreamUpgradeToTls ==
    /\ pc = "stream"
    /\ Len(log) < MaxCalls
    /\ \E up \in UpgradeOutcomes :
          /\ Commit(Called(upgrade_to_tls(Engine, up)))
          /\ ret' = Returned("upgrade", secure, upgrade(secure, up))
          /\ parser' = IF has_rw /\ upgrade(secure, up).ok
                       THEN stream_parser_new("tls") ELSE parser
    /\ UNCHANGED <<debug_build, sock_ok, tls_required, settings_ct, reads,
                   stanzas, socket, store, callers, router, mailboxes, recorder,
                   conns>>

\* the peer sends one more token
PeerSends ==
    /\ pc = "stream"
    /\ socket.sent < MaxTokens
    /\ \E kind \in TokenKinds :
          socket' = [sent |-> socket.sent + 1,
                     bytes |-> Append(socket.bytes, Token(kind, socket.sent + 1))]
    /\ UNCHANGED <<EngineVars, ret, parser, store, callers, router, mailboxes,
                   recorder, conns>>

\* reader().next() awaited: poll_next returns the item of the next event of
\* the parser, after reading the socket when the parser has none
StreamNext ==
    /\ pc = "stream"
    /\ has_rw
    /\ Len(log) < MaxCalls
    /\ IF parser.buf # <<>>
       THEN /\ \E item \in items_of(parser, Head(parser.buf)) :
                  log' = Append(log, item)
            /\ parser' = polled(parser)
            /\ UNCHANGED socket
       ELSE /\ socket.bytes # <<>>
            /\ \E n \in 1..Len(socket.bytes) :
                  /\ \E item \in items_of(parser, Head(socket.bytes)) :
                        log' = Append(log, item)
                  /\ parser' = polled(fed(parser, socket.bytes, n))
                  /\ socket' = [socket EXCEPT
                                   !.bytes = SubSeq(@, n + 1, Len(@))]
    /\ UNCHANGED <<pc, debug_build, sock_ok, starttls_allowed, secure,
                   authenticated, has_rw, wstack, tls_required, settings_ct,
                   connection_type, features, jid, peer_jid, peer_language,
                   element, pending, sasl, reads, stanzas, ret, store, callers,
                   router, mailboxes, recorder, conns>>

NextStream ==
    \/ StreamReset
    \/ StreamUpgradeToTls
    \/ PeerSends
    \/ StreamNext

SpecStream == InitStream /\ [][NextStream]_vars

(***************************************************************************)
(* The store actor with the tasks that call it through a StoreHandle.      *)
(***************************************************************************)
\* StoreHandle::get_stored_password and the like: the request is sent and the
\* reply awaited
CallerRequests ==
    /\ pc = "store"
    /\ store.issued < MaxRequests
    /\ \E c \in Callers, op \in Operations :
          /\ callers[c].state \in {"idle", "replied"}
          /\ store' = IF store.alive
                      THEN sent_on(store, Request(c, op, store.issued + 1))
                      ELSE [store EXCEPT !.issued = @ + 1]
          /\ callers' = [callers EXCEPT
                            ![c] = [state |-> "waiting", n |-> store.issued + 1]]
    /\ UNCHANGED <<EngineVars, ret, BesideStore>>

\* the task awaiting a reply is dropped
CallerAbandons ==
    /\ pc = "store"
    /\ \E c \in Callers :
          /\ callers[c].state = "waiting"
          /\ callers' = [callers EXCEPT ![c].state = "dropped"]
    /\ UNCHANGED <<EngineVars, ret, BesideStore, store>>

\* a turn of Store::run that takes a query: store.rs 68-70, 79-90
StoreHandlesQuery ==
    /\ pc = "store"
    /\ store.alive
    /\ store.queries # <<>>
    /\ store' = replied([store EXCEPT !.queries = Tail(@)], callers,
                        Head(store.queries))
    /\ callers' = IF receiver_alive(callers, Head(store.queries))
                  THEN [callers EXCEPT
                          ![Head(store.queries).caller].state = "replied"]
                  ELSE callers
    /\ UNCHANGED <<EngineVars, ret, BesideStore>>

\* a turn of Store::run that takes a command: store.rs 71-73, 92-129
StoreHandlesCommand ==
    /\ pc = "store"
    /\ store.alive
    /\ store.commands # <<>>
    /\ store' = replied([store EXCEPT !.commands = Tail(@)], callers,
                        Head(store.commands))
    /\ callers' = IF receiver_alive(callers, Head(store.commands))
                  THEN [callers EXCEPT
                          ![Head(store.commands).caller].state = "replied"]
                  ELSE callers
    /\ UNCHANGED <<EngineVars, ret, BesideStore>>

\* result_rx.await.expect("Store is gone") when the store's task has ended
\* and dropped the sender
CallerFindsStoreGone ==
    /\ pc = "store"
    /\ ~store.alive
    /\ \E c \in Callers :
          /\ callers[c].state = "waiting"
          /\ callers' = [callers EXCEPT ![c].state = "panicked"]
    /\ UNCHANGED <<EngineVars, ret, BesideStore, store>>

\* no connection: the engine's variables stay as they are here
Unconnected ==
    /\ sock_ok = TRUE
    /\ starttls_allowed = FALSE
    /\ secure = FALSE
    /\ authenticated = FALSE
    /\ has_rw = TRUE
    /\ wstack = NewWriter
    /\ tls_required = FALSE
    /\ settings_ct = "Client"
    /\ connection_type = None
    /\ features = {}
    /\ jid = NoJid
    /\ peer_jid = NoJid
    /\ peer_language = None
    /\ element = NoElement
    /\ pending = <<>>
    /\ sasl = NoSasl
    /\ log = <<>>
    /\ reads = 0
    /\ stanzas = 0
    /\ ret = NoRet

NoConnection ==
    /\ debug_build = FALSE
    /\ Unconnected

InitStore ==
    /\ pc = "store"
    /\ NoConnection
    /\ ApartInit

NextStore ==
    \/ CallerRequests
    \/ CallerAbandons
    \/ StoreHandlesQuery
    \/ StoreHandlesCommand
    \/ CallerFindsStoreGone

SpecStore == InitStore /\ [][NextStore]_vars

(***************************************************************************)
(* A task that writes Data through the recorder and flushes it, as         *)
(* write_all followed by flush do.                                         *)
(***************************************************************************)
\* one poll of write_all: the rest of the data is offered again
RecorderWrite ==
    /\ pc = "recorder"
    /\ recorder.poll.poll # "panic"
    /\ recorder.reported < Len(Data)
    /\ \E inner \in SinkAnswers, file \in SinkAnswers :
          recorder' = poll_write(recorder,
                                 SubSeq(Data, recorder.reported + 1, Len(Data)),
                                 debug_build, inner, file)
    /\ UNCHANGED <<EngineVars, ret, parser, socket, store, callers, router,
                   mailboxes, conns>>

\* one poll of flush
RecorderFlush ==
    /\ pc = "recorder"
    /\ recorder.poll.poll # "panic"
    /\ recorder.reported = Len(Data)
    /\ \E file \in SinkAnswers, inner_flushed \in BOOLEAN,
          file_flushed \in BOOLEAN :
          /\ recorder' = poll_flush(recorder, file, inner_flushed, file_flushed)
          /\ pc' = IF recorder'.poll.poll = "Ready" THEN "flushed" ELSE pc
    /\ UNCHANGED <<debug_build, sock_ok, starttls_allowed, secure,
                   authenticated, has_rw, wstack, tls_required, settings_ct,
                   connection_type, features, jid, peer_jid, peer_language,
                   element, pending, sasl, log, reads, stanzas, ret, parser,
                   socket, store, callers, router, mailboxes, conns>>

InitRecorder ==
    /\ pc = "recorder"
    /\ debug_build \in BOOLEAN
    /\ Unconnected
    /\ ApartInit

NextRecorder ==
    \/ RecorderWrite
    \/ RecorderFlush

SpecRecorder == InitRecorder /\ [][NextRecorder]_vars

(***************************************************************************)
(* The router actor with the connections that send it commands and         *)
(* stanzas.                                                                *)
(***************************************************************************)
\* the commands and stanzas sent so far
Sends ==
    Cardinality({k \in DOMAIN log : log[k].ev \in {"command", "stanza"}})

\* a connection sends a management command
SendsCommand ==
    /\ pc = "router"
    /\ Sends < MaxCommands
    /\ \E j \in RouterJids, m \in Mailboxes :
          \E command \in {Register(j, m), Unregister(j)} :
              /\ router' = [router EXCEPT !.management = Append(@, command)]
              /\ log' = Append(log, Ev("command", command))
    /\ UNCHANGED <<pc, debug_build, sock_ok, starttls_allowed, secure,
                   authenticated, has_rw, wstack, tls_required, settings_ct,
                   connection_type, features, jid, peer_jid, peer_language,
                   element, pending, sasl, reads, stanzas, ret, BesideRouter,
                   mailboxes>>

\* a connection forwards a stanza for j: RouterHandle::send_stanza
SendsStanza ==
    /\ pc = "router"
    /\ Sends < MaxCommands
    /\ \E j \in RouterJids :
          /\ router' = [router EXCEPT !.stanzas = Append(@, j)]
          /\ log' = Append(log, Ev("stanza", j))
    /\ UNCHANGED <<pc, debug_build, sock_ok, starttls_allowed, secure,
                   authenticated, has_rw, wstack, tls_required, settings_ct,
                   connection_type, features, jid, peer_jid, peer_language,
                   element, pending, sasl, reads, stanzas, ret, BesideRouter,
                   mailboxes>>

\* a turn of Router::run that takes a command: router.rs 26-28, 37-46
RouterHandlesCommand ==
    /\ pc = "router"
    /\ router.management # <<>>
    /\ router' = [router EXCEPT
                     !.management = Tail(@),
                     !.entities = handle_management_command(
                                      @, Head(router.management))]
    /\ log' = Append(log, Ev("handled", Head(router.management)))
    /\ UNCHANGED <<pc, debug_build, sock_ok, starttls_allowed, secure,
                   authenticated, has_rw, wstack, tls_required, settings_ct,
                   connection_type, features, jid, peer_jid, peer_language,
                   element, pending, sasl, reads, stanzas, ret, BesideRouter,
                   mailboxes>>

\* a turn of Router::run that takes a stanza: router.rs 23-25, 33-35
RouterRoutes ==
    /\ pc = "router"
    /\ router.stanzas # <<>>
    /\ router' = [router EXCEPT !.stanzas = Tail(@)]
    /\ mailboxes' = route_stanza_to(mailboxes, router.entities,
                                    Head(router.stanzas))
    /\ log' = Append(log, Ev("routed", Head(router.stanzas)))
    /\ UNCHANGED <<pc, debug_build, sock_ok, starttls_allowed, secure,
                   authenticated, has_rw, wstack, tls_required, settings_ct,
                   connection_type, features, jid, peer_jid, peer_language,
                   element, pending, sasl, reads, stanzas, ret, BesideRouter>>

InitRouter ==
    /\ pc = "router"
    /\ NoConnection
    /\ ApartInit

NextRouter ==
    \/ SendsCommand
    \/ SendsStanza
    \/ RouterHandlesCommand
    \/ RouterRoutes

SpecRouter == InitRouter /\ [][NextRouter]_vars

(***************************************************************************)
(* Two connections of the same user beside the router.  A connection is    *)
(* named by its mailbox.  It registers its bare JID when SASL has          *)
(* succeeded and replaces it by the bound JID when a resource is bound;    *)
(* register_peer_jid awaits each of its two sends, so the other connection *)
(* and the router can run between them.                                    *)
(***************************************************************************)
\* what is left unchanged beside conns, router and log
ConnFrame ==
    <<pc, debug_build, sock_ok, starttls_allowed, secure, authenticated,
      has_rw, wstack, tls_required, settings_ct, connection_type, features,
      jid, peer_jid, peer_language, element, pending, sasl, reads, stanzas,
      ret, parser, socket, store, callers, recorder, mailboxes>>

\* c sends command: the channel takes it and the log keeps who sent it
Sent(c, management) ==
    IF management = router.management THEN log
    ELSE Append(log, Ev("sent", [by |-> c,
                                 command |-> management[Len(management)]]))

\* lib.rs 213: register_peer_jid(Some(bare JID)) after SASL success; nothing
\* was registered before, so the Register is the only send
ConnAuthenticates ==
    /\ pc = "router"
    /\ \E c \in Mailboxes :
          /\ conns[c].at = "connected"
          /\ router' = [router EXCEPT
                           !.management =
                               set_and_registered(
                                   taken_and_unregistered(@, conns[c].peer_jid),
                                   BareJid, c)]
          /\ log' = Sent(c, router'.management)
          /\ conns' = [conns EXCEPT ![c] = [peer_jid |-> BareJid,
                                           at |-> "authenticated"]]
    /\ UNCHANGED ConnFrame

\* lib.rs 228, 237-245: register_peer_jid(Some(bound JID)) up to its first
\* send, the Unregister of the JID registered before
ConnUnregisters ==
    /\ pc = "router"
    /\ \E c \in Mailboxes, full \in FullJids :
          /\ conns[c].at = "authenticated"
          /\ router' = [router EXCEPT
                           !.management =
                               taken_and_unregistered(@, conns[c].peer_jid)]
          /\ log' = Sent(c, router'.management)
          /\ conns' = [conns EXCEPT ![c] = [peer_jid |-> full,
                                           at |-> "binding"]]
    /\ UNCHANGED ConnFrame

\* lib.rs 247-253: the second send of the same call
ConnRegisters ==
    /\ pc = "router"
    /\ \E c \in Mailboxes :
          /\ conns[c].at = "binding"
          /\ router' = [router EXCEPT
                           !.management =
                               set_and_registered(@, conns[c].peer_jid, c)]
          /\ log' = Sent(c, router'.management)
          /\ conns' = [conns EXCEPT ![c].at = "bound"]
    /\ UNCHANGED ConnFrame

\* lib.rs 117-147: handle returns, on the peer's close or on an error; it
\* sends the router nothing
ConnTerminates ==
    /\ pc = "router"
    /\ \E c \in Mailboxes :
          /\ conns[c].at \in {"connected", "authenticated", "bound"}
          /\ conns' = [conns EXCEPT ![c].at = "terminated"]
    /\ UNCHANGED <<ConnFrame, router, log>>

InitConnections ==
    /\ pc = "router"
    /\ NoConnection
    /\ ApartInit

NextConnections ==
    \/ ConnAuthenticates
    \/ ConnUnregisters
    \/ ConnRegisters
    \/ ConnTerminates
    \/ RouterHandlesCommand

\* the router's task is polled for as long as a command waits
SpecConnections ==
    InitConnections /\ [][NextConnections]_vars
    /\ WF_vars(RouterHandlesCommand)

(***************************************************************************)
(* Direct calls of the pure functions: the inputs are drawn in the initial *)
(* state, a call leaves its result in ret.                                 *)
(***************************************************************************)
MechanismNames ==
    {"EXTERNAL", "PLAIN", "SCRAM-SHA-1", "SCRAM-SHA-1-PLUS", "SCRAM-SHA-256",
     "SCRAM-SHA-256-PLUS", "DIGEST-MD5"}

InitFn ==
    /\ pc = "call"
    /\ debug_build \in BOOLEAN
    /\ sock_ok = TRUE
    /\ starttls_allowed \in BOOLEAN
    /\ secure \in BOOLEAN
    /\ authenticated \in BOOLEAN
    /\ has_rw = TRUE
    /\ wstack = NewWriter
    /\ tls_required \in BOOLEAN
    /\ settings_ct \in {"Client", "Server"}
    /\ connection_type \in {None, "Client", "Server"}
    /\ features \in SUBSET Features
    /\ jid = NoJid
    /\ peer_jid = NoJid
    /\ peer_language = None
    /\ element = NoElement
    /\ pending = <<>>
    /\ sasl = NoSasl
    /\ log = <<>>
    /\ reads = 0
    /\ stanzas = 0
    /\ ret = NoRet
    /\ ApartInit

FnFrame ==
    <<debug_build, sock_ok, starttls_allowed, secure, authenticated, has_rw,
      wstack, tls_required, settings_ct, connection_type, features, jid,
      peer_jid, peer_language, element, pending, sasl, log, reads, stanzas,
      Apart>>

CallNegotiableFeatures ==
    /\ pc = "call"
    /\ pc' = "returned"
    /\ ret' = Returned("negotiable_features", None,
                       negotiable_features(starttls_allowed, tls_required,
                                           connection_type, features))
    /\ UNCHANGED FnFrame

CallSaslAdvertiseFeature ==
    /\ pc = "call"
    /\ pc' = "returned"
    /\ ret' = Returned("sasl_advertise_feature", None,
                       sasl_advertise_feature(secure, authenticated))
    /\ UNCHANGED FnFrame

CallMechanismTryFrom ==
    /\ pc = "call"
    /\ pc' = "returned"
    /\ \E name \in MechanismNames :
          ret' = Returned("mechanism_try_from", name, mechanism_try_from(name))
    /\ UNCHANGED FnFrame

\* the entries the calls below format: those new creates, and for each
\* digest one with empty salt and one with empty keys
StoredEntries ==
    {stored_password_new(d, p, salt) : <<d, p, salt>> \in Digests \X Passwords \X Salts}
    \cup {StoredPasswordScram(d, SCRAM_ITERATIONS, "", "key", "key") : d \in Digests}
    \cup {StoredPasswordScram(d, SCRAM_ITERATIONS, "key", "", "") : d \in Digests}

\* a stored text, and what it becomes with a field less or more, another
\* iteration count, or a field that is not base64
Altered(t) ==
    {t, SubSeq(t, 1, Len(t) - 2), t \o <<"$", "a2V5">>, [t EXCEPT ![6] = "!"]}
    \cup {[t EXCEPT ![4] = i] : i \in {"4095", "1", "0", "x"}}

StoredTexts == UNION {Altered(stored_password_fmt(e)) : e \in StoredEntries}

\* a lookup of the entry of kind d, parsed as ScramNegotiator::process does
CallStoredPasswordFromStr ==
    /\ pc = "call"
    /\ pc' = "returned"
    /\ \E d \in Digests, t \in StoredTexts :
          ret' = Returned("from_str", <<d, t>>, stored_password_from_str(d, t))
    /\ UNCHANGED FnFrame

\* a user registered with password p authenticates with the password attempt:
\* the entry is created, formatted, stored, looked up, parsed and handed to
\* the SCRAM session
CallScramAuthenticate ==
    /\ pc = "call"
    /\ pc' = "returned"
    /\ \E d \in Digests, p \in Passwords, salt \in Salts, attempt \in Passwords :
          ret' = Returned("authenticate", <<d, p, attempt>>,
                          stored_password_from_str(
                              d, stored_password_fmt(stored_password_new(d, p, salt))).ok
                          /\ proof_verifies(
                                 stored_password_from_str(
                                     d, stored_password_fmt(
                                            stored_password_new(d, p, salt))).entry,
                                 attempt))
    /\ UNCHANGED FnFrame

\* a stanza the router delivers to this connection
Stanza(id, body) ==
    add_child(set_attribute(Element("message", XMPP_CLIENT), "id", None, id),
              add_text(Element("body", XMPP_CLIENT), body))

\* element trees the engine writes inside an open stream: its own replies,
\* and stanzas whose text or attribute value holds a markup character
OutboundTrees ==
    {ErrorElement, ProceedElement, starttls_advertise_feature,
     bind_advertise_feature, sasl_advertise_feature(TRUE, FALSE),
     sasl_reply(ProcessResult("Challenge", ServerFirst, NoJid, NoSasl)),
     sasl_reply(ProcessResult("Failure", "", NoJid, NoSasl)),
     BindResponse("b1", Jid("alice", Domain, "phone")),
     Stanza("m1", "hello"), Stanza("m1", "a<b"), Stanza("m1", "R&D"),
     Stanza("m1", "1 &lt; 2"), Stanza("say \"hi\"", "hello")}

\* the peer of the writer reads what write_xml_element emits
CallWriteThenParse ==
    /\ pc = "call"
    /\ pc' = "returned"
    /\ \E el \in OutboundTrees :
          ret' = Returned("parse", el,
                          parse_fragment(
                              build_xml_element(OpenStream(Domain), el).xml,
                              OpenStream(Domain)))
    /\ UNCHANGED FnFrame

\* a child that declares its namespace, and a sibling after it in the same
\* namespace
Scoped ==
    add_child(add_child(Element("iq", XMPP_CLIENT),
                        set_attribute(Element("query", "urn:example:q"),
                                      "xmlns", None, "urn:example:q")),
              Element("item", "urn:example:q"))

\* an attribute in a namespace that has no prefix on the stack
Foreign ==
    set_attribute(Element("message", XMPP_CLIENT), "kind", "urn:example:q", "x")

WrittenTrees == OutboundTrees \cup {Scoped, Foreign}

\* the stacks a writer can have: new, inside a stream, and emptied
WriterStacks == {NewWriter, OpenStream(Domain), Pop(NewWriter)}

\* what a call left: its Result and the writer's stack
Left(s) == [r |-> s.r, stack |-> s.wstack]

\* a writer on stack: el written at once; a header, el, and the close
CallWriter ==
    /\ pc = "call"
    /\ pc' = "returned"
    /\ \E stack \in WriterStacks, el \in WrittenTrees :
          ret' = Returned("writer", <<stack, el>>,
                     [bare |-> Left(write_xml_element(
                                   [Engine EXCEPT !.wstack = stack], el)),
                      unresolved |-> build_xml_element(stack, el).assert,
                      header |-> Left(write_stream_header(
                                   [Engine EXCEPT !.wstack = stack], Domain)),
                      element |-> Left(write_xml_element(
                                   write_stream_header(
                                       [Engine EXCEPT !.wstack = stack], Domain),
                                   el)),
                      close |-> Left(write_stream_close(
                                   write_xml_element(
                                       write_stream_header(
                                           [Engine EXCEPT !.wstack = stack],
                                           Domain),
                                       el)))])
    /\ UNCHANGED FnFrame

NextFn ==
    \/ CallNegotiableFeatures
    \/ CallSaslAdvertiseFeature
    \/ CallMechanismTryFrom
    \/ CallStoredPasswordFromStr
    \/ CallScramAuthenticate
    \/ CallWriteThenParse
    \/ CallWriter

SpecFn == InitFn /\ [][NextFn]_vars

(***************************************************************************)
(* Reading the log.                                                        *)
(***************************************************************************)
Range(seq) == {seq[i] : i \in DOMAIN seq}

\* event e is the event of kind k with value v
Is(e, k, v) == e.ev = k /\ e.v = v

\* the positions of the log holding the event of kind k with value v
At(k, v) == {i \in DOMAIN log : Is(log[i], k, v)}

(***************************************************************************)
(* C1: negotiable_features returns exactly: Tls iff STARTTLS is allowed    *)
(* and Tls is not negotiated; Authentication iff (Tls is negotiated or TLS *)
(* is not required) and Authentication is not negotiated; ResourceBinding  *)
(* iff the connection type is Client, Authentication is negotiated and     *)
(* ResourceBinding is not; each at most once.                              *)
(***************************************************************************)
C1_Expected ==
    {f \in Features :
        \/ f = "Tls" /\ starttls_allowed /\ "Tls" \notin features
        \/ f = "Authentication" /\ ("Tls" \in features \/ ~tls_required)
              /\ "Authentication" \notin features
        \/ f = "ResourceBinding" /\ connection_type = "Client"
              /\ "Authentication" \in features
              /\ "ResourceBinding" \notin features}

C1_NegotiableFeatures ==
    ret.op = "negotiable_features" =>
        /\ Range(ret.val) = C1_Expected
        /\ Len(ret.val) = Cardinality(C1_Expected)

\* a call that returns Authentication because Tls is negotiated, where TLS
\* is required
C1_Witness ==
    /\ ret.op = "negotiable_features"
    /\ tls_required /\ "Tls" \in features
    /\ ret.val = <<"Authentication">>

(***************************************************************************)
(* The texts on the wire that the properties name.                         *)
(***************************************************************************)
XmlDeclText == "<?xml version='1.0'?>"

HeaderText ==
    "<stream:stream from=\"localhost\" id=\"ID\" version=\"1.0\" xml:lang=\"en\" xmlns=\"jabber:client\" xmlns:stream=\"http://etherx.jabber.org/streams\">"

StreamErrorText ==
    "<stream:error><internal-server-error xmlns=\"urn:ietf:params:xml:ns:xmpp-streams\"/></stream:error>"

StreamCloseText == "</stream:stream>"

ProceedText == "<proceed xmlns=\"urn:ietf:params:xml:ns:xmpp-tls\"/>"

SuccessText ==
    "<success xmlns=\"urn:ietf:params:xml:ns:xmpp-sasl\">dj1zaWduYXR1cmU=</success>"

FeaturesBindText ==
    "<stream:features><bind xmlns=\"urn:ietf:params:xml:ns:xmpp-bind\"/></stream:features>"

IsWrite(e) == e.ev = "write"

\* everything written to the socket, in order
Written == [i \in DOMAIN SelectSeq(log, IsWrite) |-> SelectSeq(log, IsWrite)[i].v]

Count(seq, x) == Cardinality({i \in DOMAIN seq : seq[i] = x})

\* what a step appends to the log; a step that reads a frame logs it first
Step == SubSeq(log', Len(log) + 1, Len(log'))

StepDid(k, v) == \E i \in DOMAIN Step : Is(Step[i], k, v)

StepWrote(str) == StepDid("write", str)

StepRouted == \E i \in DOMAIN Step : Step[i].ev = "route"

FrameRead == Step[1].v

ReadsFrame == reads' = reads + 1

\* a turn of the event loop that hands a fragment to process_element
ProcessesElement == pc = "loop" /\ ReadsFrame /\ FrameRead.kind = "fragment"

Negotiable(f) == f \in Range(NegotiableFeatures(Engine))

(***************************************************************************)
(* C2: every execution of handle that ends in a fatal error has written    *)
(* exactly one <stream:error> element and after it exactly one             *)
(* </stream:stream>; when the first inbound frame is an XML fragment, the  *)
(* complete output is the stream header, one stream error, one close.      *)
(* (Stated for executions whose socket accepted every write.)              *)
(***************************************************************************)
C2_OneErrorThenClose ==
    (pc = "done_err" /\ sock_ok) =>
        /\ Count(Written, StreamErrorText) = 1
        /\ Count(Written, StreamCloseText) = 1
        /\ \A i, j \in DOMAIN Written :
              Written[i] = StreamErrorText /\ Written[j] = StreamCloseText
                  => i < j
        /\ log[1].v.kind = "fragment" =>
              Written = <<XmlDeclText, HeaderText, StreamErrorText,
                          StreamCloseText>>

(***************************************************************************)
(* C3: while Tls is negotiable, a turn of the event loop writes <proceed/> *)
(* and upgrades the connection exactly when the fragment is the element    *)
(* starttls in urn:ietf:params:xml:ns:xmpp-tls; after a successful upgrade *)
(* Tls is negotiated, the stream is reset and the engine awaits the peer's *)
(* new header.                                                             *)
(***************************************************************************)
C3_ProceedIffStarttls ==
    [][(ProcessesElement /\ sock_ok /\ Negotiable("Tls")) =>
          /\ (StepWrote(ProceedText) /\ (\E i \in DOMAIN Step : Step[i].ev = "upgrade"))
                <=> validate(FrameRead.el, "starttls", XMPP_STARTTLS)
          /\ StepDid("upgrade", "ok") =>
                /\ "Tls" \in features'
                /\ Is(Step[Len(Step)], "reset", None)
                /\ pc' = "exchange_after_tls"]_vars

(***************************************************************************)
(* C4: while ResourceBinding is negotiable, an <iq type="set" id="b1"> in  *)
(* jabber:client with a bind child in urn:ietf:params:xml:ns:xmpp-bind is  *)
(* answered with the iq result of the same id carrying <bind><jid>, and    *)
(* ResourceBinding becomes negotiated.                                     *)
(***************************************************************************)
C4_BindAnswered ==
    [][(ProcessesElement /\ sock_ok /\ Negotiable("ResourceBinding")
          /\ FrameRead.el = BindRequest(XMPP_CLIENT)) =>
          /\ StepWrote(build_xml_element(
                           wstack,
                           BindResponse("b1", jid_bind(peer_jid, FreshUuid))).xml)
          /\ "ResourceBinding" \in features']_vars

(***************************************************************************)
(* C5: a failure inside a feature negotiation that has begun (no stream    *)
(* header after a reset, a failed upgrade, an unexpected frame where a     *)
(* SASL response was expected) is fatal: the engine ends through its       *)
(* fatal-error path and the element is not forwarded to the router.        *)
(***************************************************************************)
NegotiationFails ==
    \/ pc \in {"exchange_after_tls", "exchange_after_auth"}
          /\ ReadsFrame /\ FrameRead.kind # "start"
    \/ pc = "sasl" /\ ReadsFrame /\ FrameRead.kind # "fragment"
    \/ StepDid("upgrade", "failed")

C5_NegotiationFailureFatal ==
    [][NegotiationFails => pc' = "done_err" /\ ~StepRouted]_vars

(***************************************************************************)
(* C6: when the parser yields an error item in the event loop, the engine  *)
(* writes a <stream:error> before </stream:stream> and ends through its    *)
(* fatal-error path, not as for a stream the peer closed.                  *)
(***************************************************************************)
C6_ParseErrorIsFatal ==
    [][(pc = "loop" /\ ReadsFrame /\ FrameRead.kind = "err" /\ sock_ok) =>
          /\ StepWrote(StreamErrorText)
          /\ pc' = "done_err"]_vars

(***************************************************************************)
(* C7: when the parser reports end of stream in the event loop, the engine *)
(* writes exactly one </stream:stream> and no <stream:error>, and ends.    *)
(***************************************************************************)
C7_EndOfStreamCloses ==
    [][(pc = "loop" /\ ReadsFrame /\ FrameRead.kind = "eof" /\ sock_ok) =>
          /\ Len(Step) = 2
          /\ Is(Step[2], "write", StreamCloseText)
          /\ pc' = "done_ok"]_vars

(***************************************************************************)
(* C8: after the SASL driver has returned Success for authid alice, in     *)
(* this order: peer_jid is set to alice@localhost without a resource,      *)
(* Register of that JID is sent to the router, Authentication is           *)
(* negotiated, the stream is reset, the next thing the engine does is read *)
(* a frame, and on the peer's header it writes its own header and          *)
(* advertises the features without the authentication feature.             *)
(***************************************************************************)
AuthenticatedJid == Jid("alice", "localhost", None)

C8_AfterSaslSuccess ==
    \A i \in At("write", SuccessText) :
        /\ Len(log) >= i + 4
        /\ Is(log[i + 1], "peer_jid", AuthenticatedJid)
        /\ Is(log[i + 2], "mgmt", <<"Register", AuthenticatedJid>>)
        /\ Is(log[i + 3], "insert", "Authentication")
        /\ Is(log[i + 4], "reset", None)
        /\ Len(log) > i + 4 => log[i + 5].ev = "read"
        /\ (Len(log) > i + 4 /\ log[i + 5].v.kind = "start" /\ sock_ok) =>
              /\ Len(log) >= i + 8
              /\ Is(log[i + 6], "write", XmlDeclText)
              /\ Is(log[i + 7], "write", HeaderText)
              /\ Is(log[i + 8], "write", FeaturesBindText)

\* an authentication has succeeded and the features were advertised again
C8_Witness ==
    \E i \in At("write", SuccessText) :
        /\ Len(log) >= i + 8
        /\ Is(log[i + 8], "write", FeaturesBindText)
        /\ peer_jid = AuthenticatedJid
        /\ pc = "loop"

(***************************************************************************)
(* C9: for every (secure, authenticated) the mechanism names listed in the *)
(* advertised <mechanisms> element are those the availability matrix marks *)
(* available: EXTERNAL iff secure and authenticated, PLAIN iff secure,     *)
(* SCRAM-SHA-1 and SCRAM-SHA-256 always, the -PLUS variants iff secure.    *)
(***************************************************************************)
C9_Available ==
    {"SCRAM-SHA-1", "SCRAM-SHA-256"}
    \cup (IF secure
          THEN {"PLAIN", "SCRAM-SHA-1-PLUS", "SCRAM-SHA-256-PLUS"} ELSE {})
    \cup (IF secure /\ authenticated THEN {"EXTERNAL"} ELSE {})

C9_AdvertisedMechanisms ==
    ret.op = "sasl_advertise_feature" =>
        {text(ret.val.children[i]) : i \in DOMAIN ret.val.children}
            = C9_Available

(***************************************************************************)
(* C10: for an <auth> element handed to the SASL driver, mechanism         *)
(* SCRAM-SHA-1 starts the SCRAM/SHA-1 negotiator and SCRAM-SHA-256 the     *)
(* SCRAM/SHA-256 negotiator; with any other mechanism name the driver      *)
(* returns and the connection task does not abort.                         *)
(***************************************************************************)
AuthWith(m) ==
    /\ ProcessesElement
    /\ sock_ok
    /\ ~Negotiable("Tls")
    /\ Negotiable("Authentication")
    /\ validate(FrameRead.el, "auth", XMPP_SASL)
    /\ attribute(FrameRead.el, "mechanism", None) = m

C10_MechanismMapping ==
    [][\A m \in MechanismNames :
          AuthWith(m) =>
              CASE m = "SCRAM-SHA-1" -> sasl'.mech = "ScramSha1"
                [] m = "SCRAM-SHA-256" -> sasl'.mech = "ScramSha256"
                [] OTHER -> pc' # "panicked"]_vars

(***************************************************************************)
(* C11: in the SASL loop, after a mechanism Failure the driver has written *)
(* <failure><not-authorized/></failure> and awaits the next <response>: a  *)
(* <response> read after fewer than three failures of the negotiation is   *)
(* answered and leaves the engine running, and the third consecutive       *)
(* failure of one negotiation terminates the stream.                       *)
(***************************************************************************)
FailureText ==
    "<failure xmlns=\"urn:ietf:params:xml:ns:xmpp-sasl\"><not-authorized/></failure>"

IsAuthRead(e) ==
    e.ev = "read" /\ e.v.kind = "fragment" /\ validate(e.v.el, "auth", XMPP_SASL)

\* the failures written since the <auth> that began the running negotiation
FailuresOf(l) ==
    Cardinality({i \in DOMAIN l :
                    /\ Is(l[i], "write", FailureText)
                    /\ \A j \in DOMAIN l : IsAuthRead(l[j]) => j < i
                    /\ \E j \in DOMAIN l : IsAuthRead(l[j])})

ReadsResponse ==
    /\ pc = "sasl"
    /\ ReadsFrame
    /\ FrameRead.kind = "fragment"
    /\ validate(FrameRead.el, "response", XMPP_SASL)

C11_FailureAwaitsResponse ==
    [][(ReadsResponse /\ sock_ok /\ FailuresOf(log) \in 1..2) =>
          /\ pc' # "panicked"
          /\ \E i \in DOMAIN Step : Step[i].ev = "write"
          /\ FailuresOf(log') < 3 => pc' \notin Terminal
          /\ FailuresOf(log') = 3 => pc' \in Terminal]_vars

(***************************************************************************)
(* C12: when the peer answers a SASL challenge or failure with the element *)
(* abort in urn:ietf:params:xml:ns:xmpp-sasl, the driver writes            *)
(* <failure><aborted/></failure> before the negotiation returns its error. *)
(***************************************************************************)
AbortedElement ==
    add_child(SaslElement("failure"), Element("aborted", XMPP_SASL))

C12_AbortAnswered ==
    [][(pc = "sasl" /\ ReadsFrame /\ sock_ok
          /\ FrameRead.kind = "fragment"
          /\ validate(FrameRead.el, "abort", XMPP_SASL)) =>
          /\ Len(Step) >= 2
          /\ Is(Step[2], "write", build_xml_element(wstack, AbortedElement).xml)]_vars

(***************************************************************************)
(* C13: for an authid without a stored SCRAM entry the server's SASL       *)
(* elements are those an existing user with a wrong proof sees: the        *)
(* client-first message is answered with a <challenge>, not with a         *)
(* failure, the driver awaits the client-final message, and that message   *)
(* is answered with <failure><not-authorized/></failure>.                  *)
(***************************************************************************)
UnknownUser(payload) ==
    /\ client_first_authid(payload) # None
    /\ client_first_authid(payload) \notin StoredUsers

C13_UnknownUserIndistinguishable ==
    [][/\ (AuthWith("SCRAM-SHA-1") /\ UnknownUser(base64_decode(text(FrameRead.el))))
            => /\ ~StepWrote(FailureText)
               /\ \E i \in DOMAIN Step : Step[i].ev = "write"
               /\ pc' = "sasl"
       /\ (ReadsResponse /\ sock_ok /\ sasl.phase = "final"
              /\ sasl.authid \notin StoredUsers)
            => StepWrote(FailureText)]_vars

(***************************************************************************)
(* C14: after a successful bind the bound JID is the authenticated peer    *)
(* JID with its local part and domain unchanged and with the resource the  *)
(* request's <resource> child names, or a freshly generated UUID when the  *)
(* request has none; the connection is then registered with the router     *)
(* under this full JID and no longer under the bare JID.                   *)
(***************************************************************************)
IsMgmt(e, command, j) == e.ev = "mgmt" /\ e.v = <<command, j>>

\* the JIDs the router holds for this connection after the commands of l
Registered(l) ==
    {l[i].v[2] : i \in {k \in DOMAIN l :
                          /\ l[k].ev = "mgmt"
                          /\ l[k].v[1] = "Register"
                          /\ \A m \in DOMAIN l :
                                IsMgmt(l[m], "Unregister", l[k].v[2]) => m < k}}

RequestedResource(el) ==
    find_child(find_child(el, "bind", XMPP_BIND), "resource", XMPP_BIND)

C14_BoundJid ==
    [][(ProcessesElement /\ StepDid("insert", "ResourceBinding")) =>
          /\ peer_jid'.local = peer_jid.local
          /\ peer_jid'.domain = peer_jid.domain
          /\ peer_jid'.resource =
                (IF RequestedResource(FrameRead.el) # NoElement
                 THEN text(RequestedResource(FrameRead.el)) ELSE FreshUuid)
          /\ peer_jid.resource = None
          /\ Registered(log) = {peer_jid}
          /\ Registered(log') = {peer_jid'}]_vars

\* a bind that asked for the resource "phone" has succeeded
C14_Witness ==
    /\ "ResourceBinding" \in features
    /\ peer_jid = Jid("alice", "localhost", "phone")
    /\ Registered(log) = {peer_jid}

\* a bind that asked for no resource has succeeded
C14_FreshResourceBound ==
    /\ "ResourceBinding" \in features
    /\ peer_jid = Jid("alice", "localhost", FreshUuid)

(***************************************************************************)
(* C15: across any sequence of inbound frames and outbound stanzas on one  *)
(* connection the negotiated feature set only grows: no step removes Tls,  *)
(* Authentication or ResourceBinding once it has been inserted.            *)
(***************************************************************************)
C15_FeaturesOnlyGrow == [][features \subseteq features']_vars

\* a second feature has been negotiated on top of the first
C15_Witness ==
    /\ features = {"Tls", "Authentication"}
    /\ \E i, j \in DOMAIN log :
          /\ i < j
          /\ Is(log[i], "insert", "Tls")
          /\ Is(log[j], "insert", "Authentication")

(***************************************************************************)
(* C16: for every StoredPasswordScram entry with 4096 iterations, of       *)
(* either digest, parsing the text that formatting the entry produces      *)
(* succeeds and yields the same iterations, salt, stored key and server    *)
(* key.                                                                    *)
(***************************************************************************)
C16_FormatParseRoundTrip ==
    \A e \in StoredEntries :
        (ret.op = "from_str" /\ ret.arg = <<e.digest, stored_password_fmt(e)>>) =>
            /\ ret.val.ok
            /\ ret.val.entry.iterations = e.iterations
            /\ ret.val.entry.salt = e.salt
            /\ ret.val.entry.stored_key = e.stored_key
            /\ ret.val.entry.server_key = e.server_key

\* an entry created for a password has been formatted and parsed back
C16_Witness ==
    /\ ret.op = "from_str"
    /\ ret.val.ok
    /\ ret.arg = <<"Sha256",
                   stored_password_fmt(stored_password_new("Sha256", "secret", "c2FsdA"))>>

(***************************************************************************)
(* C17: parsing a stored SCRAM password text for digest H fails when the   *)
(* number of $-separated fields is wrong, when the mechanism-name field is *)
(* not the name of H, or when the iteration count is not 4096.             *)
(***************************************************************************)
C17_ParseRejects ==
    ret.op = "from_str" =>
        ((\/ Len(split(ret.arg[2])) # 6
          \/ split(ret.arg[2])[2] # mechanism_name(ret.arg[1], FALSE)
          \/ split(ret.arg[2])[3] # "4096")
            => ~ret.val.ok)

PlainAttributes(el) ==
    {el.attrs[k] :
        k \in {j \in 1..Len(el.attrs) :
                  el.attrs[j][2] # XMLNS
                  /\ ~(el.attrs[j][2] = None /\ el.attrs[j][1] = "xmlns")}}

RECURSIVE SameTree(_, _)
SameTree(a, b) ==
    /\ a.name = b.name
    /\ a.ns = b.ns
    /\ a.text = b.text
    /\ PlainAttributes(a) = PlainAttributes(b)
    /\ Len(a.children) = Len(b.children)
    /\ \A k \in 1..Len(a.children) : SameTree(a.children[k], b.children[k])

C19_WriteParseRoundTrip ==
    ret.op = "parse" => ret.val.ok /\ SameTree(ret.val.el, ret.arg)

(***************************************************************************)
(* C20: XmppStream holds a reader and a writer after new, after every      *)
(* reset and after every upgrade_to_tls that returned Ok, whatever calls   *)
(* of reset and upgrade_to_tls came before.                                *)
(***************************************************************************)
C20_ReaderAndWriterHeld ==
    (\/ log = <<>>
     \/ Is(log[Len(log)], "reset", None)
     \/ Is(log[Len(log)], "upgrade", "ok"))
    => has_rw

\* a reset after a successful upgrade after a reset
C20_Witness ==
    /\ pc = "stream"
    /\ Len(log) = 3
    /\ Is(log[1], "reset", None)
    /\ Is(log[2], "upgrade", "ok")
    /\ Is(log[3], "reset", None)
    /\ has_rw

\* a failed upgrade leaves the stream without reader and writer
C20_FailedUpgradeReached ==
    pc = "stream" /\ log # <<>> /\ Is(log[Len(log)], "upgrade", "failed")
    /\ ~has_rw

(***************************************************************************)
(* C21: reset leaves starttls_allowed, secure and authenticated as they    *)
(* are; they change only in an upgrade_to_tls that returns Ok, which sets  *)
(* each to what the upgraded connection reports.                           *)
(***************************************************************************)
Flags == <<starttls_allowed, secure, authenticated>>

C21_FlagsFollowConnection ==
    [][/\ StepDid("reset", None) => Flags' = Flags
       /\ Flags' # Flags => StepDid("upgrade", "ok")
       /\ StepDid("upgrade", "ok")
          => Flags' = <<ret'.val.starttls_allowed, ret'.val.secure,
                        ret'.val.authenticated>>]_vars

\* an upgrade has made a plain stream secure and a reset has followed
C21_Witness ==
    /\ Len(log) = 2
    /\ Is(log[1], "upgrade", "ok")
    /\ Is(log[2], "reset", None)
    /\ ret.op = "upgrade"
    /\ ~ret.arg
    /\ secure
    /\ authenticated
    /\ ~starttls_allowed

(***************************************************************************)
(* C23: upgrade of a connection that is already secure returns an error    *)
(* without a TLS handshake; upgrade of a plain connection, when it         *)
(* succeeds, yields a connection whose is_secure() is true.                *)
(***************************************************************************)
C23_UpgradeOfSecureFails ==
    ret.op = "upgrade"
    => /\ ret.arg => ~ret.val.ok /\ ~ret.val.handshake
       /\ ~ret.arg /\ ret.val.ok => ret.val.secure

C23_Witness == ret.op = "upgrade" /\ ret.arg /\ ~ret.val.ok

C23_PlainUpgraded == ret.op = "upgrade" /\ ~ret.arg /\ ret.val.ok /\ secure

(***************************************************************************)
(* C22: after a reset, and after an upgrade_to_tls that returned Ok, the   *)
(* new parser holds nothing and the new writer's namespace stack holds the *)
(* two reserved bindings only; what the old parser had read from the       *)
(* socket and not turned into an item is never delivered afterwards.       *)
(***************************************************************************)
Delivered(id) ==
    \E k \in DOMAIN log :
        log[k].ev \in {"StreamStart", "XmlFragment", "None", "Err"}
        /\ log[k].v.id = id

\* read from the socket, and neither held by the parser nor delivered
Dropped(id) ==
    /\ id <= socket.sent
    /\ \A k \in DOMAIN socket.bytes : socket.bytes[k].id # id
    /\ \A k \in DOMAIN parser.buf : parser.buf[k].id # id
    /\ ~Delivered(id)

C22_RebuiltEmpty ==
    [][/\ (StepDid("reset", None) \/ StepDid("upgrade", "ok"))
          => /\ parser'.buf = <<>>
             /\ ~parser'.closed
             /\ wstack' = NewWriter
       /\ \A id \in 1..MaxTokens : Dropped(id) => ~Delivered(id)']_vars

\* the parser had read two tokens and delivered one when the stream was
\* reset; the new parser has delivered the token sent after them
C22_Witness ==
    /\ Dropped(2)
    /\ Delivered(1)
    /\ Delivered(3)
    /\ \E k \in DOMAIN log : Is(log[k], "reset", None)

(***************************************************************************)
(* C30: between two resets a parser yields at most one StreamStart, and    *)
(* once it has yielded the end of the sequence for </stream:stream> it     *)
(* yields no further frame, whatever the peer sends.                       *)
(***************************************************************************)
IsRebuild(e) == Is(e, "reset", None) \/ Is(e, "upgrade", "ok")

\* the events at i and j are of the same parser
SameParser(i, j) == \A k \in i..j : ~IsRebuild(log[k])

C30_OneStreamStart ==
    \A i \in DOMAIN log : \A j \in DOMAIN log :
        (i < j /\ SameParser(i, j))
        => /\ ~(log[i].ev = "StreamStart" /\ log[j].ev = "StreamStart")
           /\ ~(log[i].ev = "None"
                /\ log[j].ev \in {"StreamStart", "XmlFragment"})

(***************************************************************************)
(* C24: when a caller abandons a pending store request, the store actor    *)
(* discards the reply and keeps serving: its task goes on, and no later    *)
(* caller finds the store gone.                                            *)
(***************************************************************************)
C24_StoreKeepsServing ==
    /\ store.alive
    /\ \A c \in Callers : callers[c].state # "panicked"

(***************************************************************************)
(* C25: once the router has processed Register(j, m2) while j was          *)
(* registered with mailbox m1, it maps j to m2, and m1, which no entry     *)
(* holds any more, receives no stanza routed from then on.                 *)
(***************************************************************************)
Held(m) == \E j \in RouterJids : router.entities[j] = m

C25_RegisterReplaces ==
    [][/\ \A j \in RouterJids, m \in Mailboxes :
             StepDid("handled", Register(j, m)) => router'.entities[j] = m
       /\ \A m \in Mailboxes : ~Held(m) => mailboxes'[m] = mailboxes[m]]_vars

\* alice's entry went from m1 to m2 and a stanza for her was routed afterwards
C25_Witness ==
    /\ Len(log) = 6
    /\ Is(log[2], "handled", Register("alice@localhost", "m1"))
    /\ Is(log[4], "handled", Register("alice@localhost", "m2"))
    /\ Is(log[6], "routed", "alice@localhost")
    /\ router.entities["alice@localhost"] = "m2"
    /\ ~Held("m1")

(***************************************************************************)
(* C26: whatever part of a buffer the inner stream and the recording file  *)
(* accept and whenever they answer Pending, poll_write never panics, and   *)
(* once the data is written and flushed the counts poll_write reported add *)
(* up to the number of bytes the inner stream accepted and the output      *)
(* recording holds exactly those bytes, in order, each once.               *)
(***************************************************************************)
C26_RecordingEqualsWritten ==
    /\ recorder.poll.poll # "panic"
    /\ pc = "flushed" =>
          /\ recorder.reported = Len(recorder.inner_stream)
          /\ recorder.output_recording = recorder.inner_stream

(***************************************************************************)
(* C27: the stanzas a single sender enqueues on the connection's mailbox   *)
(* are taken oldest first and each is written to the peer once, in that    *)
(* order, the parser side of the select notwithstanding; only the stanza   *)
(* whose own write failed on a broken socket is taken and not written.     *)
(***************************************************************************)
Taken == SelectSeq(log, LAMBDA e : e.ev = "stanza")

StanzaXml == {build_xml_element(OpenStream(None), Message(n)).xml :
                  n \in DOMAIN StanzaIds}

StanzaWrites == SelectSeq(log, LAMBDA e : e.ev = "write" /\ e.v \in StanzaXml)

WriteFailed ==
    /\ pc = "done_err"
    /\ ~sock_ok
    /\ log[Len(log)].ev = "stanza"

C27_MailboxInOrder ==
    /\ Len(Taken) = stanzas
    /\ \A k \in 1..Len(Taken) : Taken[k].v = Message(k)
    /\ \A k \in 1..Len(mailboxes[stanza_rx]) :
          mailboxes[stanza_rx][k] = Message(stanzas + k)
    /\ \A k \in 1..Len(StanzaWrites) :
          StanzaWrites[k].v = build_xml_element(OpenStream(None), Message(k)).xml
    /\ \/ Len(StanzaWrites) = stanzas
       \/ Len(StanzaWrites) = stanzas - 1 /\ WriteFailed
    /\ \A k \in 1..Len(log) :
          log[k].ev = "stanza" =>
              \/ k = Len(log) /\ WriteFailed
              \/ /\ k < Len(log)
                 /\ log[k + 1].ev = "write"
                 /\ log[k + 1].v = build_xml_element(OpenStream(None), log[k].v).xml

\* the same step while the stream is open, that is with the root frame on
\* the writer's stack: the stanza goes out whole, or its write fails
StanzaWrittenWhileOpen ==
    [][(stanzas' = stanzas + 1 /\ Len(wstack) >= 2) =>
          \/ log' = log \o
                 <<Ev("stanza", Message(stanzas')),
                   Ev("write", build_xml_element(OpenStream(None),
                                                 Message(stanzas')).xml)>>
          \/ /\ ~sock_ok
             /\ pc' = "done_err"
             /\ log' = Append(log, Ev("stanza", Message(stanzas')))]_vars

(***************************************************************************)
(* C28: write_xml_element returns with the writer's namespace stack as it  *)
(* found it, for an element without children and for one with children at  *)
(* any depth, so that what an element declares is gone for the sibling     *)
(* after it; write_stream_header pushes one frame on the stack, and the    *)
(* write_stream_close after it pops that frame.                            *)
(***************************************************************************)
C28_StackRestored ==
    ret.op = "writer" =>
        /\ ret.val.bare.r = "ok" => ret.val.bare.stack = ret.arg[1]
        /\ ret.val.header.r = "ok" =>
              /\ Len(ret.val.header.stack) = Len(ret.arg[1]) + 1
              /\ Pop(ret.val.header.stack) = ret.arg[1]
        /\ ret.val.element.r = "ok" =>
              ret.val.element.stack = ret.val.header.stack
        /\ ret.val.close.r = "ok" => ret.val.close.stack = ret.arg[1]

\* an element with children two deep, one of them declaring a namespace,
\* went out inside a stream and the stream was closed
C28_Witness ==
    /\ ret.op = "writer"
    /\ ret.arg[2] = Scoped
    /\ ret.arg[1] = NewWriter
    /\ ret.val.close.r = "ok"
    /\ ret.val.close.stack = NewWriter
    /\ Len(ret.val.element.stack) = 2

(***************************************************************************)
(* C29: when the namespace of an element or of an attribute has no prefix  *)
(* on the writer's stack, write_xml_element does not return Ok.            *)
(***************************************************************************)
C29_UnresolvedIsError ==
    (ret.op = "writer" /\ ret.val.unresolved) => ret.val.bare.r # "ok"

(***************************************************************************)
(* C31: a fragment is forwarded to the router only on a connection on      *)
(* which Authentication has been negotiated before: every element routed   *)
(* comes after the insert of Authentication into the negotiated set.       *)
(***************************************************************************)
C31_RoutedOnlyAuthenticated ==
    \A k \in DOMAIN log :
        log[k].ev = "route" =>
            \E j \in 1..(k - 1) : Is(log[j], "insert", "Authentication")

(***************************************************************************)
(* C32: on a connection with tls_required, Authentication is in the        *)
(* negotiated set only when Tls is, and a SASL exchange is running only    *)
(* when Tls is in the negotiated set.                                      *)
(***************************************************************************)
C32_TlsBeforeAuthentication ==
    tls_required =>
        /\ "Authentication" \in features => "Tls" \in features
        /\ (pc = "sasl" \/ sasl # NoSasl) => "Tls" \in features

\* a connection that requires TLS has negotiated both
C32_Witness ==
    /\ tls_required
    /\ {"Tls", "Authentication"} \subseteq features
    /\ secure

(***************************************************************************)
(* C33: once the server has written </stream:stream> the engine does       *)
(* nothing more on the connection: no write, no read of a frame and no     *)
(* element forwarded to the router comes after it.                         *)
(***************************************************************************)
C33_NothingAfterClose ==
    \A k \in DOMAIN log :
        Is(log[k], "write", "</stream:stream>") => k = Len(log)

(***************************************************************************)
(* C34: with two connections authenticated as the same user, the router    *)
(* never removes, for an Unregister one connection sent, an entry that     *)
(* holds the other connection's mailbox.                                   *)
(***************************************************************************)
\* the commands sent and the commands the router has taken, in order
SentCommands == SelectSeq(log, LAMBDA e : e.ev = "sent")

Handled == SelectSeq(log, LAMBDA e : e.ev = "handled")

\* who sent the command at the head of the management channel
SenderOfNext == SentCommands[Len(Handled) + 1].v.by

C34_UnregisterSparesTheOther ==
    [][(/\ router.management # <<>>
        /\ router'.management = Tail(router.management)
        /\ Head(router.management).command = "Unregister")
       => router.entities[Head(router.management).jid]
              \in {None, SenderOfNext}]_vars

(***************************************************************************)
(* C35: among the commands one connection sends, every Register but the    *)
(* first comes directly after the Unregister of the JID of the Register    *)
(* before it; and once the router has taken every command a connection     *)
(* has sent, at most one router entry holds that connection's mailbox.     *)
(***************************************************************************)
SentBy(c) == SelectSeq(SentCommands, LAMBDA e : e.v.by = c)

\* commands of c that wait in the management channel
Outstanding(c) ==
    {k \in DOMAIN SentCommands :
         k > Len(Handled) /\ SentCommands[k].v.by = c}

EntriesOf(c) == {j \in RouterJids : router.entities[j] = c}

C35_OneEntryPerConnection ==
    \A c \in Mailboxes :
        /\ \A k \in DOMAIN SentBy(c) :
              (k > 1 /\ SentBy(c)[k].v.command.command = "Register") =>
                  /\ k > 2
                  /\ SentBy(c)[k - 1].v.command
                         = Unregister(SentBy(c)[k - 2].v.command.jid)
                  /\ SentBy(c)[k - 2].v.command.command = "Register"
        /\ Outstanding(c) = {} => Cardinality(EntriesOf(c)) <= 1

\* both connections authenticated and bound, the router has taken all six
\* commands, and m1 is held by the entry of its bound JID alone
C35_Witness ==
    /\ conns["m1"].at = "bound"
    /\ conns["m2"].at = "bound"
    /\ Len(Handled) = 6
    /\ router.management = <<>>
    /\ EntriesOf("m1") = {conns["m1"].peer_jid}

(***************************************************************************)
(* C36: after the engine of a connection has terminated, the router        *)
(* eventually holds no entry with that connection's mailbox.               *)
(***************************************************************************)
C36_TerminatedIsUnregistered ==
    \A c \in Mailboxes :
        (conns[c].at = "terminated") ~> (EntriesOf(c) = {})

(***************************************************************************)
(* C37: once upgrade_to_tls has failed and left the stream without parser  *)
(* and writer, the engine does not read from or write to the stream: the   *)
(* failed upgrade is the last thing it did, no reader() or writer() call   *)
(* panics, and no later step reads, writes or routes.                      *)
(***************************************************************************)
C37_AbsentHalvesUnused ==
    /\ [](~has_rw => /\ log # <<>>
                     /\ Is(log[Len(log)], "upgrade", "failed")
                     /\ pc # "panicked")
    /\ [][~has_rw => log' = log /\ pc' # "panicked"]_vars

(***************************************************************************)
(* C38: whenever the SASL driver waits for the peer's next response, the   *)
(* call of ScramNegotiator::process it makes for that response returns a   *)
(* Challenge, a Success or a Failure, whatever the payload, also when the  *)
(* mechanism worker has already finished.                                  *)
(***************************************************************************)
C38_ProcessReturns ==
    pc = "sasl" =>
        \A payload \in {ClientFirst, ClientFirstUnknown, ClientFinal},
           proof_ok \in BOOLEAN :
            scram_process(sasl, payload, proof_ok).result
                \in {"Challenge", "Success", "Failure"}

(***************************************************************************)
(* C39: whatever the engine writes, the writer's namespace stack keeps at  *)
(* least one frame, and its bottom frame is the one StreamWriter::new put  *)
(* there, with the reserved xml and xmlns bindings.                        *)
(***************************************************************************)
C39_ReservedFrameKept ==
    /\ Len(wstack) >= 1
    /\ wstack[1] = NewWriter[1]

(***************************************************************************)
(* C40: in every state of a connection, ResourceBinding in the negotiated  *)
(* set implies Authentication in it, and Authentication in the negotiated  *)
(* set implies that peer_jid is set.                                       *)
(***************************************************************************)
C40_FeatureOrder ==
    /\ "ResourceBinding" \in features => "Authentication" \in features
    /\ "Authentication" \in features => peer_jid # NoJid

\* a connection that has authenticated and bound a resource
C40_Witness ==
    /\ {"Authentication", "ResourceBinding"} \subseteq features
    /\ peer_jid # NoJid
    /\ peer_jid.resource # None

====
